---- MODULE Spec2Model ----
(***************************************************************************)
(* A model of the skapa box configurator: the solid-geometry generator of  *)
(* src/src/model/manifold.ts (arc and rounded-rectangle builders, the      *)
(* front-cutout contour, the contour warp, the clip grid of box()) and the *)
(* host application of src/src/main.ts (the reactive parameter state with  *)
(* its clamp listeners, and the frame loop that schedules regenerations).  *)
(*                                                                         *)
(* Numbers.  The program computes in IEEE doubles and millimetres.  The    *)
(* model computes in fixed point: a length is an integer number of         *)
(* hundredths of a millimetre (U units per mm), an angle is an integer     *)
(* number of steps of which Q make a quarter turn, and a cosine is an      *)
(* integer number of ten-thousandths (TS).  Every product stays below      *)
(* 2^31.  Divisions round to nearest unless the code floors.               *)
(***************************************************************************)
EXTENDS Integers, Sequences, FiniteSets, TLC

VARIABLES
    \* --- roundedRectangle harness (manifold.ts:55-84, 386-429)
    size,          \* the Vec2 passed as `size`, <<w, h>>, in length units
    radii,         \* the CornerRadii record passed as `radii`
    vertices,      \* the vertex list handed to `new CrossSection(...)` by the per-corner builder
    verticesOne,   \* the vertex list of the single-radius builder (first revision of the file)
    rcPc,          \* "idle" | "args" | "built" | "both"
    \* --- one call of box() (manifold.ts:757-812); `radii` above is its CornerRadii too
    height, width, depth, wall, bottom,   \* the numeric arguments, in length units
    openFront,     \* OpenFrontParams, or a record with defined = FALSE for `undefined`
    cornerClipsOnly, \* "true" | "false" | "undefined"
    bxPc,          \* where the call stands: "idle" | "start" | "interior" | "cutout" | "clips" | "done"
    ci, cj,        \* the loop counters i, j of the clip loop
    ops,           \* the kernel operations issued so far, in order
    cutout,        \* what frontCutout computed (its locals), once it has run
    \* --- the warp callback of frontCutout (manifold.ts:623-695) on one vertex
    v,             \* the vertex handed to the callback, <<x, y>> (z is left alone)
    warped,        \* the vertex as the callback leaves it
    wpPc,          \* "idle" | "start" | "warp" | "warped" (the callback returned) | "done" (no warp)
    \* --- the parameter state of main.ts (main.ts:69-161), in whole millimetres
    levels,              \* levels.latest
    modelDimensions,     \* latest of height, width, depth, wall, bottom
    cornerRadii,         \* latest of frontLeft, frontRight, backLeft, backRight
    radiusLinked,        \* radiusLinked.latest
    mainRadiusDyn,       \* mainRadiusDyn.latest
    openFrontEnabled,    \* openFrontEnabled.latest
    openFrontDimensions, \* latest of openness (percent), bottomOffset, cutoutRadius
    maxBottomOffset,     \* maxBottomOffset.latest
    maxCutoutRadius,     \* maxCutoutRadius.latest
    maxRadius,           \* maxRadius.latest
    lastInput,           \* the control of the last input event and the value parsed from it
    events,              \* number of input events handled so far
    \* --- the frame loop of main.ts (main.ts:845-926)
    reloadModelNeeded,   \* the flag of that name
    modelLoadStarted,    \* the timestamp of that name, Undefined when undefined
    nowMillis,           \* the timestamp of the last frame
    pending,             \* the reloadModel promises not settled yet, by the frame that started them
    centerCameraNeeded,  \* the flag of that name
    meshFrom,            \* the frame whose reloadModel last assigned mesh.geometry
    paramVersion,        \* how many parameter changes the listeners have seen
    animLeft,            \* frames the animations still need to reach their targets (0: at rest)
    startedWith,         \* the paramVersion whose final values the last started reloadModel read,
                         \* Undefined if it read values of an animation under way
    \* --- ManifoldModule.get() under concurrent box() calls (manifold.ts:338-350)
    wasm,                \* ManifoldModule.wasm: Undefined, or the call whose init() produced it
    initCalls,           \* how many times init() has been called
    setupCalls,          \* how many times setup() has been called
    getPc,               \* per call of get(): "idle" | "init" (awaiting init) | "setup" (awaiting setup) | "returned"
    \* --- generateArc on drawn arguments (manifold.ts:355-379)
    arcArgs,             \* the argument record
    arcPts,              \* the points returned
    arcPc,               \* "idle" | "args" | "built"
    \* --- frontCutoutCrossSection on drawn arguments (manifold.ts:467-542)
    csArgs,              \* the argument record
    cs,                  \* what the function computed: r, the branch taken, the vertices
    csPc,                \* "idle" | "args" | "built"
    \* --- part positioning with the mouse (main.ts:173-195, 271-290, 727-841)
    partPositioning,     \* partPositioning.latest, a PartPosition
    rotation,            \* the Animate `rotation`: current, target, whether the target is immediate
    mouseListening,      \* trackMouse and forgetMouse are registered on the window
    mouseEvent,          \* the last event handled: "none" | "miss" | "press" | "move" | "release" | "frame"
    lastBound            \* the last value bound(...) returned

rectVars == <<size, vertices, verticesOne, rcPc>>
boxVars == <<height, width, depth, wall, bottom, openFront, cornerClipsOnly,
             bxPc, ci, cj, ops, cutout>>
warpVars == <<v, warped, wpPc>>
uiVars == <<levels, modelDimensions, cornerRadii, radiusLinked, mainRadiusDyn,
            openFrontEnabled, openFrontDimensions, maxBottomOffset, maxCutoutRadius,
            maxRadius, lastInput, events>>
loopVars == <<reloadModelNeeded, modelLoadStarted, nowMillis, pending,
              centerCameraNeeded, meshFrom, paramVersion, animLeft, startedWith>>
kernelVars == <<wasm, initCalls, setupCalls, getPc>>
arcVars == <<arcArgs, arcPts, arcPc>>
crossVars == <<csArgs, cs, csPc>>
mouseVars == <<partPositioning, rotation, mouseListening, mouseEvent, lastBound>>
auxVars == <<kernelVars, arcVars, crossVars, mouseVars>>
appVars == <<uiVars, loopVars, auxVars>>
vars == <<size, radii, vertices, verticesOne, rcPc,
          height, width, depth, wall, bottom, openFront, cornerClipsOnly,
          bxPc, ci, cj, ops, cutout, v, warped, wpPc,
          levels, modelDimensions, cornerRadii, radiusLinked, mainRadiusDyn,
          openFrontEnabled, openFrontDimensions, maxBottomOffset, maxCutoutRadius,
          maxRadius, lastInput, events,
          reloadModelNeeded, modelLoadStarted, nowMillis, pending,
          centerCameraNeeded, meshFrom, paramVersion, animLeft, startedWith,
          wasm, initCalls, setupCalls, getPc, arcArgs, arcPts, arcPc, csArgs, cs, csPc,
          partPositioning, rotation, mouseListening, mouseEvent, lastBound>>

----------------------------------------------------------------------------
(* Fixed point *)

\* Length units per millimetre ("NOTE: all values are in mm").
U == 10 * 10

\* Angle steps per quarter turn; 11 = segments + 1 divides it, so that the
\* default arcs fall on table entries.
Q == 12 * 11

\* Scale of the cosine table.
TS == 100 * 100

Abs(x) == IF x < 0 THEN -x ELSE x
Min2(a, b) == IF a <= b THEN a ELSE b
Max2(a, b) == IF a >= b THEN a ELSE b
Sign(x) == IF x > 0 THEN 1 ELSE IF x < 0 THEN -1 ELSE 0

\* a / b rounded to the nearest integer (b > 0), halves up.
RDiv(a, b) == (2 * a + b) \div (2 * b)

\* Math.floor(a / b) for b > 0.
FloorDiv(a, b) == a \div b

\* round(TS * cos(i * (pi/2) / Q)), i = 0 .. Q
CosTab ==
  <<
     10000, 9999, 9997, 9994, 9989, 9982, 9975, 9965, 9955, 9943, 9929, 9914,
     9898, 9881, 9862, 9841, 9819, 9796, 9771, 9745, 9718, 9689, 9659, 9628,
     9595, 9561, 9525, 9488, 9450, 9410, 9369, 9327, 9284, 9239, 9193, 9145,
     9096, 9046, 8995, 8942, 8888, 8833, 8777, 8719, 8660, 8600, 8539, 8476,
     8413, 8348, 8281, 8214, 8146, 8076, 8005, 7934, 7861, 7786, 7711, 7635,
     7557, 7479, 7400, 7319, 7237, 7155, 7071, 6986, 6901, 6814, 6727, 6638,
     6549, 6458, 6367, 6275, 6182, 6088, 5993, 5897, 5801, 5703, 5605, 5506,
     5406, 5306, 5205, 5103, 5000, 4897, 4792, 4688, 4582, 4476, 4369, 4262,
     4154, 4046, 3937, 3827, 3717, 3606, 3495, 3383, 3271, 3158, 3045, 2931,
     2817, 2703, 2588, 2473, 2358, 2242, 2126, 2009, 1893, 1776, 1658, 1541,
     1423, 1305, 1187, 1069, 951, 832, 713, 595, 476, 357, 238, 119,
     0 >>

\* Math.cos of an angle given in steps (any integer), scaled by TS.
Cos(a) ==
  LET m == a % (4 * Q)
  IN  IF m <= Q THEN CosTab[m + 1]
      ELSE IF m <= 2 * Q THEN -CosTab[2 * Q - m + 1]
      ELSE IF m <= 3 * Q THEN -CosTab[m - 2 * Q + 1]
      ELSE CosTab[4 * Q - m + 1]

\* Math.sin of an angle given in steps, scaled by TS.
Sin(a) == Cos(a - Q)

\* radius * cos(angle), radius * sin(angle) in length units.
MulCos(r, a) == RDiv(r * Cos(a), TS)
MulSin(r, a) == RDiv(r * Sin(a), TS)

----------------------------------------------------------------------------
(* Arc generator and rounded-rectangle builders *)

\* `segments = 10`, the default of generateArc, used by every caller.
segments == 10

\* (claim checks only) an arc whose angle step divides by nPoints, so that it
\* stops one step short of endAngle
generateArcOpenEnded(center, radius, startAngle, endAngle, segs) ==
  LET nPoints == segs + 2
  IN  [k \in 1..nPoints |->
         LET i == k - 1
             angle == startAngle + RDiv(i * (endAngle - startAngle), nPoints)
         IN  << center[1] + MulCos(radius, angle),
                center[2] + MulSin(radius, angle) >>]

\* generateArc({center, radius, startAngle, endAngle, segments}): nPoints =
\* segments + 2 points, point i at startAngle + i*(endAngle-startAngle)/(nPoints-1).
generateArc(center, radius, startAngle, endAngle, segs) ==
  LET nPoints == segs + 2
  IN  [k \in 1..nPoints |->
         LET i == k - 1
             angle == startAngle + RDiv(i * (endAngle - startAngle), nPoints - 1)
         IN  << center[1] + MulCos(radius, angle),
                center[2] + MulSin(radius, angle) >>]

\* Array.prototype.reverse
Reverse(s) == [k \in 1..Len(s) |-> s[Len(s) + 1 - k]]

\* the arc of one corner with the defaults startAngle = 0, endAngle = PI/2
CornerArc(w, h, r) ==
  generateArc(<< RDiv(w, 2) - r, RDiv(h, 2) - r >>, r, 0, Q, segments)

MirrorX(s) == [k \in 1..Len(s) |-> << -s[k][1], s[k][2] >>]
MirrorY(s) == [k \in 1..Len(s) |-> << s[k][1], -s[k][2] >>]
MirrorXY(s) == [k \in 1..Len(s) |-> << -s[k][1], -s[k][2] >>]

\* A builder that forgets to reverse the two mirrored arcs (claim checks only).
roundedRectangleUnreversed(sz, rd) ==
  LET w == sz[1]
      h == sz[2]
  IN  CornerArc(w, h, rd.frontLeft)
        \o MirrorX(CornerArc(w, h, rd.frontRight))
        \o MirrorXY(CornerArc(w, h, rd.backRight))
        \o MirrorY(CornerArc(w, h, rd.backLeft))

\* A builder whose bottom-left arc is mirrored about one axis only (claim checks only).
roundedRectangleHalfMirrored(sz, rd) ==
  LET w == sz[1]
      h == sz[2]
  IN  CornerArc(w, h, rd.frontLeft)
        \o Reverse(MirrorX(CornerArc(w, h, rd.frontRight)))
        \o MirrorX(CornerArc(w, h, rd.backRight))
        \o Reverse(MirrorY(CornerArc(w, h, rd.backLeft)))

\* roundedRectangle(size, radii: CornerRadii): topRight, topLeft (mirrored and
\* reversed), bottomLeft (mirrored twice), bottomRight (mirrored and reversed).
roundedRectangle(sz, rd) ==
  LET w == sz[1]
      h == sz[2]
      topRight == CornerArc(w, h, rd.frontLeft)
      topLeft == Reverse(MirrorX(CornerArc(w, h, rd.frontRight)))
      bottomLeft == MirrorXY(CornerArc(w, h, rd.backRight))
      bottomRight == Reverse(MirrorY(CornerArc(w, h, rd.backLeft)))
  IN  topRight \o topLeft \o bottomLeft \o bottomRight

\* roundedRectangle(size, cornerRadius: number) of the first revision: one
\* basic arc, mirrored and reversed for the other three corners.
roundedRectangleOne(sz, cornerRadius) ==
  LET w == sz[1]
      h == sz[2]
      basicArc == CornerArc(w, h, cornerRadius)
      topRight == basicArc
      topLeft == Reverse(MirrorX(basicArc))
      bottomLeft == MirrorXY(basicArc)
      bottomRight == Reverse(MirrorY(basicArc))
  IN  topRight \o topLeft \o bottomLeft \o bottomRight

\* the CornerRadii record
Radii(fl, fr, bl, br) ==
  [frontLeft |-> fl, frontRight |-> fr, backLeft |-> bl, backRight |-> br]

NoRadii == Radii(0, 0, 0, 0)

\* Largest corner radius drawn, in mm.
MaxRadiusMM == 10

----------------------------------------------------------------------------
(* frontCutout: the per-side contour geometry and the extents of the cutout *)

CLIP_HEIGHT == 12 * U

\* BOOLEAN_OVERSHOOT = 1 mm
BOOLEAN_OVERSHOOT == 1 * U

\* r * Math.PI / 2, with PI/2 = 1.5708
PiHalfTimes(r) == RDiv(r * 15708, 10000)

NoOpenFront ==
  [defined |-> FALSE, openness |-> 0, bottomOffset |-> 0, cutoutRadius |-> 0,
   backFlatAllowance_R |-> 0, backFlatAllowance_L |-> 0]

\* OpenFrontParams; openness is held in percent (the fraction times 100)
OpenFront(pct, bo, cr) ==
  [defined |-> TRUE, openness |-> pct, bottomOffset |-> bo, cutoutRadius |-> cr,
   backFlatAllowance_R |-> 0, backFlatAllowance_L |-> 0]

\* (claim checks only) an extent that shrinks as the opening grows
TimesOpennessInverted(pct, x) == RDiv((105 - pct) * x, 100)

\* openness * effectiveMax
TimesOpenness(pct, x) == RDiv(pct * x, 100)

\* the `needsWarp` test of frontCutout
NeedsWarp(halfExtent_R, halfExtent_L, topR, flatBound_R, flatBound_L, rFL, rFR) ==
  \/ (halfExtent_R + topR > flatBound_R /\ rFL > 0)
  \/ (halfExtent_L + topR > flatBound_L /\ rFR > 0)

\* Math.min of the four candidates of the bottom radius
MinOf4(a, b, c, d) == Min2(Min2(a, b), Min2(c, d))

\* (claim checks only) a bottom radius limited by the requested value and the
\* height only, not by the half extents
BottomRadiusIgnoringExtent(cr, hR, hL, span) == Min2(cr, RDiv(span, 2))

\* `Math.min(cutoutRadius, halfExtent_R, halfExtent_L, (top - bot) / 2)`
BottomRadius(cr, hR, hL, span) == MinOf4(cr, hR, hL, RDiv(span, 2))

\* frontCutoutCrossSection(halfExtent_R, halfExtent_L, height, bottom,
\* bottomOffset, cutoutRadius, topR): the radius r, the branch taken and the
\* vertex list handed to `new CrossSection(...)`
frontCutoutCrossSection(hR, hL, h, b, bo, cr, tR) ==
  LET bot == b + bo
      top == h
      r == BottomRadius(cr, hR, hL, top - bot)
      chimney == IF tR > 0
                   THEN generateArc(<< hR + tR, top - tR >>, tR, 2 * Q, Q, segments)
                        \o << << hR + tR, top + BOOLEAN_OVERSHOOT >>,
                              << 0 - hL - tR, top + BOOLEAN_OVERSHOOT >> >>
                        \o generateArc(<< 0 - hL - tR, top - tR >>, tR, Q, 0, segments)
                   ELSE << << hR, top + BOOLEAN_OVERSHOOT >>,
                           << 0 - hL, top + BOOLEAN_OVERSHOOT >> >>
  IN  IF r <= 0
        THEN [ r |-> r, rounded |-> FALSE,
               vertices |-> << << 0 - hL, bot >>, << hR, bot >>,
                               << hR, top + BOOLEAN_OVERSHOOT >>,
                               << 0 - hL, top + BOOLEAN_OVERSHOOT >> >> ]
        ELSE [ r |-> r, rounded |-> TRUE,
               vertices |-> generateArc(<< 0 - hL + r, bot + r >>, r, 2 * Q, 3 * Q, segments)
                            \o generateArc(<< hR - r, bot + r >>, r, 3 * Q, 4 * Q, segments)
                            \o chimney ]

\* (claim checks only) an effective maximum that forgets the top flare
effectiveMaxIgnoringRadius(clipLimit, rClamped) == Max2(0, clipLimit)

\* effectiveMax_R / effectiveMax_L: Math.max(0, clipLimit - rClamped)
effectiveMax(clipLimit, rClamped) == Max2(0, clipLimit - rClamped)

\* The locals of frontCutout(height, width, depth, radii, wall, bottom,
\* openness, bottomOffset, cutoutRadius, backFlatAllowance_R, backFlatAllowance_L)
\* up to the needsWarp test, under their names in the code.
frontCutout(h, w, d, rd, wl, bo, pct, bottomOffset, cutoutRadius, bfa_R, bfa_L) ==
  LET rFL == rd.frontLeft
      rBL == rd.backLeft
      rFR == rd.frontRight
      rBR == rd.backRight
      halfFrontFlat_R == RDiv(w, 2) - rFL
      cornerArc_R == PiHalfTimes(rFL)
      sideFlat_R == d - rFL - rBL
      backArc_R == PiHalfTimes(rBL)
      maxHalf_R == halfFrontFlat_R + cornerArc_R + sideFlat_R + backArc_R
      halfFrontFlat_L == RDiv(w, 2) - rFR
      cornerArc_L == PiHalfTimes(rFR)
      sideFlat_L == d - rFR - rBR
      backArc_L == PiHalfTimes(rBR)
      maxHalf_L == halfFrontFlat_L + cornerArc_L + sideFlat_L + backArc_L
      clipLimit_R == maxHalf_R + bfa_R
      clipLimit_L == maxHalf_L + bfa_L
      bot == bo + bottomOffset
      rClamped == Min2(Min2(cutoutRadius, RDiv(h - bot, 2)), Min2(clipLimit_R, clipLimit_L))
      effectiveMax_R == effectiveMax(clipLimit_R, rClamped)
      effectiveMax_L == effectiveMax(clipLimit_L, rClamped)
      halfExtent_R == TimesOpenness(pct, effectiveMax_R)
      halfExtent_L == TimesOpenness(pct, effectiveMax_L)
      topR == rClamped
  IN  [ halfFrontFlat_R |-> halfFrontFlat_R, cornerArc_R |-> cornerArc_R,
        sideFlat_R |-> sideFlat_R, backArc_R |-> backArc_R, maxHalf_R |-> maxHalf_R,
        halfFrontFlat_L |-> halfFrontFlat_L, cornerArc_L |-> cornerArc_L,
        sideFlat_L |-> sideFlat_L, backArc_L |-> backArc_L, maxHalf_L |-> maxHalf_L,
        clipLimit_R |-> clipLimit_R, clipLimit_L |-> clipLimit_L,
        rClamped |-> rClamped,
        effectiveMax_R |-> effectiveMax_R, effectiveMax_L |-> effectiveMax_L,
        halfExtent_R |-> halfExtent_R, halfExtent_L |-> halfExtent_L,
        topR |-> topR,
        needsWarp |-> NeedsWarp(halfExtent_R, halfExtent_L, topR,
                                halfFrontFlat_R, halfFrontFlat_L, rFL, rFR) ]

NoCutout == frontCutout(0, 0, 0, NoRadii, 0, 0, 0, 0, 0, 0, 0)

----------------------------------------------------------------------------
(* box(): the clip grid, the allowances handed to frontCutout, the kernel   *)
(* operations in the order they are issued                                  *)

padding == 5 * U
gw == 40 * U
gh == 40 * U

\* (claim checks only) a grid that counts the gaps instead of the clips
GridOfGaps(h, w, rd) ==
  LET W == w - rd.backLeft - rd.backRight - 2 * padding
      N == FloorDiv(W, gw)
      M == N - 1
      H == h - CLIP_HEIGHT
  IN  [ W |-> W, N |-> N, M |-> M,
        dx2 |-> (-1 * M) * gw,
        bfc2 |-> rd.backRight - rd.backLeft,
        H |-> H, NV |-> FloorDiv(H, gh) ]

\* W, N, M, dx, backFlatCenter, H, NV of box()
Grid(h, w, rd) ==
  LET W == w - rd.backLeft - rd.backRight - 2 * padding
      N == FloorDiv(W, gw) + 1
      M == N - 1
      H == h - CLIP_HEIGHT
  IN  [ W |-> W, N |-> N, M |-> M,
        dx2 |-> (-1 * M) * gw,                     \* 2 * dx (dx = -M/2 * gw)
        bfc2 |-> rd.backRight - rd.backLeft,        \* 2 * backFlatCenter
        H |-> H, NV |-> FloorDiv(H, gh) + 1 ]

\* (claim checks only) a column position that leaves out backFlatCenter
ClipXUncentred(g, i) == i * gw + RDiv(g.dx2, 2)

\* i * gw + dx + backFlatCenter, the x of the clip pair in column i
ClipX(g, i) == i * gw + RDiv(g.dx2 + g.bfc2, 2)

\* outerClipX_R (sgn = 1) and outerClipX_L (sgn = -1); 2.45 mm is the clip's footprint
outerClipX(g, sgn) ==
  IF g.N > 0 THEN Max2(0, RDiv(g.M * gw + sgn * g.bfc2, 2) + 245) ELSE 0

\* (claim checks only) allowances that leave out the 1 mm clearance
AugmentNoClearance(of, w, rd, g) ==
  [of EXCEPT !.backFlatAllowance_R = Max2(0, RDiv(w, 2) - rd.frontLeft - outerClipX(g, 1)),
             !.backFlatAllowance_L = Max2(0, RDiv(w, 2) - rd.frontRight - outerClipX(g, -1))]

\* openFrontAugmented: openFront with both allowances filled in
Augment(of, w, rd, g) ==
  LET warpFlatBound_R == RDiv(w, 2) - rd.frontLeft
      warpFlatBound_L == RDiv(w, 2) - rd.frontRight
      outerClipX_R == outerClipX(g, 1)
      outerClipX_L == outerClipX(g, -1)
  IN  [of EXCEPT !.backFlatAllowance_R = Max2(0, warpFlatBound_R - outerClipX_R - 1 * U),
                 !.backFlatAllowance_L = Max2(0, warpFlatBound_L - outerClipX_L - 1 * U)]

\* (claim checks only) a corner test that forgets the last row
PlacedFirstRowOnly(i, j, N, NV, cco) ==
  ~(cco = "true" /\ ~((i = 0 \/ i = N - 1) /\ j = 0))

\* `cornerClipsOnly && !((i === 0 || i === N - 1) && (j === 0 || j === NV - 1))` is false
Placed(i, j, N, NV, cco) ==
  ~(cco = "true" /\ ~((i = 0 \/ i = N - 1) /\ (j = 0 \/ j = NV - 1)))

\* one kernel operation
Op(op, what, i, j) == [op |-> op, what |-> what, i |-> i, j |-> j]

\* the grid positions the loops still have to visit from (i, j) on, in loop order
Later(i, j, a, b) == a > i \/ (a = i /\ b >= j)

\* the positions from (i, j) on at which the loop body does not `continue`
Remaining(g, i, j, cco) ==
  { p \in (0..(g.N - 1)) \X (0..(g.NV - 1)) :
       Later(i, j, p[1], p[2]) /\ Placed(p[1], p[2], g.N, g.NV, cco) }

\* the first of them in loop order
First(S) == CHOOSE p \in S : \A q \in S : Later(p[1], p[2], q[1], q[2])

BoxIdle ==
  /\ height = 0 /\ width = 0 /\ depth = 0 /\ wall = 0 /\ bottom = 0
  /\ openFront = NoOpenFront
  /\ cornerClipsOnly = "undefined"
  /\ bxPc = "idle"
  /\ ci = 0 /\ cj = 0
  /\ ops = << >>
  /\ cutout = NoCutout

\* Largest number of clip levels drawn for the height.
MaxLevelsDrawn == 3

\* heights of 1 .. MaxLevelsDrawn clip levels, as main.ts derives them
HeightsMM == { x * 12 + (x - 1) * (40 - 12) : x \in 1..MaxLevelsDrawn }

BoxWidthsMM == {22, 80, 130}
BoxDepthsMM == {20, 60}

OpenFrontChoices ==
  {NoOpenFront} \cup
  { OpenFront(pct, U * b[1], U * b[2]) : pct \in {5, 50, 100}, b \in { <<0, 0>>, <<8, 6>> } }

BoxInit ==
  /\ height \in { U * x : x \in HeightsMM }
  /\ width \in { U * x : x \in BoxWidthsMM }
  /\ depth \in { U * x : x \in BoxDepthsMM }
  /\ radii \in { Radii(U * a, U * b, U * c, U * d) :
                   a \in {0, 6, MaxRadiusMM}, b \in {0, 6}, c \in {0, 6},
                   d \in {0, 6, MaxRadiusMM} }
  /\ \A k \in DOMAIN radii : 2 * radii[k] <= depth     \* maxRadius of main.ts
  /\ wall = 2 * U
  /\ bottom = 3 * U
  /\ openFront \in OpenFrontChoices
  /\ cornerClipsOnly \in {"true", "false", "undefined"}
  /\ bxPc = "start"
  /\ ci = 0 /\ cj = 0
  /\ ops = << >>
  /\ cutout = NoCutout

\* base(): the outer shell is built and extruded
BoxOuter ==
  /\ bxPc = "start"
  /\ ops' = Append(ops, Op("extrude", "outer", 0, 0))
  /\ bxPc' = "interior"
  /\ UNCHANGED <<height, width, depth, radii, wall, bottom, openFront, cornerClipsOnly, ci, cj, cutout>>
  /\ UNCHANGED rectVars
  /\ UNCHANGED warpVars
  /\ UNCHANGED appVars

\* base(): the interior is extruded and subtracted
BoxInterior ==
  /\ bxPc = "interior"
  /\ ops' = ops \o << Op("extrude", "innerNeg", 0, 0), Op("subtract", "innerNeg", 0, 0) >>
  /\ bxPc' = "cutout"
  /\ UNCHANGED <<height, width, depth, radii, wall, bottom, openFront, cornerClipsOnly, ci, cj, cutout>>
  /\ UNCHANGED rectVars
  /\ UNCHANGED warpVars
  /\ UNCHANGED appVars

\* (claim checks only) a box that unions the first clip pair before it cuts the front
BoxCutoutAfterFirstClip ==
  /\ bxPc = "cutout"
  /\ openFront.defined
  /\ LET of == Augment(openFront, width, radii, Grid(height, width, radii))
         fc == frontCutout(height, width, depth, radii, wall, bottom,
                           of.openness, of.bottomOffset, of.cutoutRadius,
                           of.backFlatAllowance_R, of.backFlatAllowance_L)
     IN  /\ cutout' = fc
         /\ ops' = ops \o << Op("add", "clipL", 0, 0), Op("add", "clipR", 0, 0),
                              Op("extrude", "cutout", 0, 0), Op("subtract", "cutout", 0, 0) >>
  /\ bxPc' = "clips"
  /\ UNCHANGED <<height, width, depth, radii, wall, bottom, openFront, cornerClipsOnly, ci, cj>>
  /\ UNCHANGED rectVars
  /\ UNCHANGED warpVars
  /\ UNCHANGED appVars

\* base(): `if (openFront)`: frontCutout runs with the augmented parameters,
\* refines and warps when needsWarp, and the result is subtracted
BoxCutout ==
  /\ bxPc = "cutout"
  /\ openFront.defined
  /\ LET of == Augment(openFront, width, radii, Grid(height, width, radii))
         fc == frontCutout(height, width, depth, radii, wall, bottom,
                           of.openness, of.bottomOffset, of.cutoutRadius,
                           of.backFlatAllowance_R, of.backFlatAllowance_L)
     IN  /\ cutout' = fc
         /\ ops' = ops \o << Op("extrude", "cutout", 0, 0) >>
                       \o (IF fc.needsWarp
                           THEN << Op("refineToLength", "cutout", 0, 0), Op("warp", "cutout", 0, 0) >>
                           ELSE << >>)
                       \o << Op("subtract", "cutout", 0, 0) >>
  /\ bxPc' = "clips"
  /\ UNCHANGED <<height, width, depth, radii, wall, bottom, openFront, cornerClipsOnly, ci, cj>>
  /\ UNCHANGED rectVars
  /\ UNCHANGED warpVars
  /\ UNCHANGED appVars

\* base(): openFront is undefined, the shell is returned as it is
BoxNoCutout ==
  /\ bxPc = "cutout"
  /\ ~openFront.defined
  /\ bxPc' = "clips"
  /\ UNCHANGED <<height, width, depth, radii, wall, bottom, openFront, cornerClipsOnly, ci, cj, ops, cutout>>
  /\ UNCHANGED rectVars
  /\ UNCHANGED warpVars
  /\ UNCHANGED appVars

\* the clip loop runs to the next position that is not skipped and unions
\* the pair there (clipL, then clipR)
BoxClip ==
  /\ bxPc = "clips"
  /\ LET g == Grid(height, width, radii)
         rem == Remaining(g, ci, cj, cornerClipsOnly)
     IN  /\ rem # {}
         /\ LET p == First(rem)
            IN  /\ ops' = ops \o << Op("add", "clipL", p[1], p[2]), Op("add", "clipR", p[1], p[2]) >>
                /\ ci' = IF p[2] + 1 < g.NV THEN p[1] ELSE p[1] + 1
                /\ cj' = IF p[2] + 1 < g.NV THEN p[2] + 1 ELSE 0
  /\ UNCHANGED <<height, width, depth, radii, wall, bottom, openFront, cornerClipsOnly, bxPc, cutout>>
  /\ UNCHANGED rectVars
  /\ UNCHANGED warpVars
  /\ UNCHANGED appVars

\* the loops are over: `return res`
BoxReturn ==
  /\ bxPc = "clips"
  /\ Remaining(Grid(height, width, radii), ci, cj, cornerClipsOnly) = {}
  /\ bxPc' = "done"
  /\ UNCHANGED <<height, width, depth, radii, wall, bottom, openFront, cornerClipsOnly, ci, cj, ops, cutout>>
  /\ UNCHANGED rectVars
  /\ UNCHANGED warpVars
  /\ UNCHANGED appVars

NextBox == BoxOuter \/ BoxInterior \/ BoxCutout \/ BoxNoCutout \/ BoxClip \/ BoxReturn

----------------------------------------------------------------------------
(* The warp callback of frontCutout                                         *)

\* the `params` record the callback selects for a side: sgn = 1 for x >= 0
\* (frontLeft/backLeft), -1 for x < 0 (frontRight/backRight)
WarpParams(fc, d, rd, sgn) ==
  IF sgn = 1
  THEN [ flatBound |-> fc.halfFrontFlat_R, cornerArc |-> fc.cornerArc_R,
         sideFlat |-> fc.sideFlat_R, backArc |-> fc.backArc_R,
         frontR |-> rd.frontLeft, backR |-> rd.backLeft,
         cornerCY |-> RDiv(d, 2) - rd.frontLeft,
         backCornerCY |-> -RDiv(d, 2) + rd.backLeft ]
  ELSE [ flatBound |-> fc.halfFrontFlat_L, cornerArc |-> fc.cornerArc_L,
         sideFlat |-> fc.sideFlat_L, backArc |-> fc.backArc_L,
         frontR |-> rd.frontRight, backR |-> rd.backRight,
         cornerCY |-> RDiv(d, 2) - rd.frontRight,
         backCornerCY |-> -RDiv(d, 2) + rd.backRight ]

arcEnd(p) == p.flatBound + p.cornerArc
sideEnd(p) == arcEnd(p) + p.sideFlat
backArcEnd(p) == sideEnd(p) + p.backArc

\* (claim checks only) a callback that tests the side flat before the front arc
RegionOfSideFirst(p, absX) ==
  IF absX <= p.flatBound THEN 1
  ELSE IF absX <= sideEnd(p) THEN 3
  ELSE IF absX <= arcEnd(p) /\ p.frontR > 0 THEN 2
  ELSE IF absX <= backArcEnd(p) /\ p.backR > 0 THEN 4
  ELSE 5

\* which of the five branches the callback takes for |x| = absX
RegionOf(p, absX) ==
  IF absX <= p.flatBound THEN 1
  ELSE IF absX <= arcEnd(p) /\ p.frontR > 0 THEN 2
  ELSE IF absX <= sideEnd(p) THEN 3
  ELSE IF absX <= backArcEnd(p) /\ p.backR > 0 THEN 4
  ELSE 5

\* `if (rLocal < 0.01) rLocal = 0.01`
ClampRLocal(rLocal) == IF rLocal < 1 THEN 1 ELSE rLocal

\* theta = (absX - from) / radius, in angle steps: the quarter turn is
\* reached when absX - from = radius * PI/2 = arc
ThetaSteps(absX, from, arc) == RDiv((absX - from) * Q, arc)

\* the position branch k computes for the vertex <<sgn * absX, y>>
RegionMap(k, p, sgn, absX, y) ==
  IF k = 1 THEN << sgn * absX, y >>
  ELSE IF k = 2 THEN
    LET theta == ThetaSteps(absX, p.flatBound, p.cornerArc)
        rLocal == ClampRLocal(y - p.cornerCY)
    IN  << sgn * (p.flatBound + MulSin(rLocal, theta)),
           p.cornerCY + MulCos(rLocal, theta) >>
  ELSE IF k = 3 THEN
    LET dd == absX - arcEnd(p)
        rLocal == y - p.cornerCY
    IN  << sgn * (p.flatBound + rLocal), p.cornerCY - dd >>
  ELSE IF k = 4 THEN
    LET thetaBack == ThetaSteps(absX, sideEnd(p), p.backArc)
        rLocal == y - p.cornerCY
    IN  << sgn * (p.flatBound + MulCos(rLocal, thetaBack)),
           p.backCornerCY - MulSin(rLocal, thetaBack) >>
  ELSE
    LET dBack == absX - backArcEnd(p)
        rLocal == y - p.cornerCY
    IN  << sgn * (p.flatBound - dBack), p.backCornerCY - rLocal >>

SideOf(x) == IF x >= 0 THEN 1 ELSE -1

\* the callback: v |-> the warped vertex
Warp(fc, d, rd, vtx) ==
  LET sgn == SideOf(vtx[1])
      p == WarpParams(fc, d, rd, sgn)
      absX == Abs(vtx[1])
  IN  RegionMap(RegionOf(p, absX), p, sgn, absX, vtx[2])

\* The cutout solid before the warp: the cross-section spans
\* [-halfExtent_L - topR, halfExtent_R + topR] in x; it is extruded by
\* wall + 2*BOOLEAN_OVERSHOOT, rotated and translated so that y runs from
\* depth/2 - wall - BOOLEAN_OVERSHOOT to depth/2 + BOOLEAN_OVERSHOOT.
CutoutReach(fc, sgn) ==
  IF sgn = 1 THEN fc.halfExtent_R + Max2(fc.topR, 0) ELSE fc.halfExtent_L + Max2(fc.topR, 0)

CutoutYs(d, wl) ==
  { RDiv(d, 2) - wl - BOOLEAN_OVERSHOOT, RDiv(d, 2) - wl, RDiv(d, 2),
    RDiv(d, 2) + BOOLEAN_OVERSHOOT }

\* the region boundaries of a side
Boundaries(p) == { p.flatBound, arcEnd(p), sideEnd(p), backArcEnd(p) }

\* |x| of the vertices drawn on a side: the boundaries, the points just
\* after them, the middle of every region and the end of the cutout
CutoutAbsXs(fc, p, sgn) ==
  { a \in Boundaries(p) \cup { b + 1 : b \in Boundaries(p) }
            \cup { RDiv(p.flatBound, 2), p.flatBound + RDiv(p.cornerArc, 2),
                   arcEnd(p) + RDiv(p.sideFlat, 2), sideEnd(p) + RDiv(p.backArc, 2),
                   CutoutReach(fc, sgn) } :
      a >= 0 /\ a <= CutoutReach(fc, sgn) }

WarpIdle ==
  /\ v = <<0, 0>>
  /\ warped = <<0, 0>>
  /\ wpPc = "idle"

WarpInit ==
  /\ height = 52 * U
  /\ width \in { U * x : x \in {22, 80} }
  /\ depth \in { U * x : x \in BoxDepthsMM }
  /\ radii \in { Radii(U * a, U * b, U * c, U * d) :
                   a \in {0, 2, 6, MaxRadiusMM}, b \in {0, 6}, c \in {0, 6, MaxRadiusMM},
                   d \in {0, 2, 6} }
  /\ \A k \in DOMAIN radii : 2 * radii[k] <= depth
  /\ wall = 2 * U
  /\ bottom = 3 * U
  /\ openFront \in { OpenFront(pct, U * b[1], U * b[2]) :
                       pct \in {50, 100}, b \in { <<0, 0>>, <<8, 6>> } }
  /\ cornerClipsOnly = "undefined"
  /\ bxPc = "idle"
  /\ ci = 0 /\ cj = 0
  /\ ops = << >>
  /\ cutout = NoCutout
  /\ v = <<0, 0>>
  /\ warped = <<0, 0>>
  /\ wpPc = "start"

\* frontCutout runs up to the needsWarp test, with the allowances box() computes
WarpBuild ==
  /\ wpPc = "start"
  /\ LET of == Augment(openFront, width, radii, Grid(height, width, radii))
         fc == frontCutout(height, width, depth, radii, wall, bottom,
                           of.openness, of.bottomOffset, of.cutoutRadius,
                           of.backFlatAllowance_R, of.backFlatAllowance_L)
     IN  /\ cutout' = fc
         /\ wpPc' = IF fc.needsWarp THEN "warp" ELSE "done"
  /\ UNCHANGED <<height, width, depth, radii, wall, bottom, openFront, cornerClipsOnly,
                 bxPc, ci, cj, ops, v, warped>>
  /\ UNCHANGED rectVars
  /\ UNCHANGED appVars

\* cutout.warp(...) calls the callback on a vertex of the refined cutout
WarpVertex ==
  /\ wpPc = "warp"
  /\ \E sgn \in {1, -1} :
       \E a \in CutoutAbsXs(cutout, WarpParams(cutout, depth, radii, sgn), sgn) :
         \E y \in CutoutYs(depth, wall) :
           /\ sgn = SideOf(sgn * a)
           /\ v' = << sgn * a, y >>
           /\ warped' = Warp(cutout, depth, radii, << sgn * a, y >>)
  /\ wpPc' = "warped"
  /\ UNCHANGED <<height, width, depth, radii, wall, bottom, openFront, cornerClipsOnly,
                 bxPc, ci, cj, ops, cutout>>
  /\ UNCHANGED rectVars
  /\ UNCHANGED appVars

NextWarp == WarpBuild \/ WarpVertex

----------------------------------------------------------------------------
(* Harness of the rounded-rectangle builders: the arguments are drawn from  *)
(* bounded sets, then each builder is applied.                              *)

\* Rectangle sizes in mm (the start size, the smallest and a narrow one).
RectSizesMM == { <<80, 60>>, <<22, 20>>, <<22, 60>>, <<2 * MaxRadiusMM, 2 * MaxRadiusMM + 20>> }

\* Corner radii in mm.
RadiusChoicesMM == {0, 3, 6, MaxRadiusMM}

\* every radius within [0, min(width, depth)/2]
RadiiInRange(sz, rd) ==
  \A k \in {"frontLeft", "frontRight", "backLeft", "backRight"} :
     /\ rd[k] >= 0
     /\ 2 * rd[k] <= Min2(sz[1], sz[2])

RectIdle ==
  /\ size = <<0, 0>>
  /\ radii = NoRadii
  /\ vertices = << >>
  /\ verticesOne = << >>
  /\ rcPc = "idle"

RectInit ==
  /\ size \in { << U * s[1], U * s[2] >> : s \in RectSizesMM }
  /\ radii \in { Radii(U * a, U * b, U * c, U * d) :
                   a \in RadiusChoicesMM, b \in RadiusChoicesMM,
                   c \in {0, 6, MaxRadiusMM}, d \in {0, 6, MaxRadiusMM} }
  /\ RadiiInRange(size, radii)
  /\ vertices = << >>
  /\ verticesOne = << >>
  /\ rcPc = "args"

AllEqual(rd) ==
  /\ rd.frontRight = rd.frontLeft
  /\ rd.backLeft = rd.frontLeft
  /\ rd.backRight = rd.frontLeft

\* the per-corner builder is called
BuildRect ==
  /\ rcPc = "args"
  /\ vertices' = roundedRectangle(size, radii)
  /\ rcPc' = "built"
  /\ UNCHANGED <<size, radii, verticesOne>>
  /\ UNCHANGED boxVars
  /\ UNCHANGED warpVars
  /\ UNCHANGED appVars

\* the single-radius builder is called with the same size and the common radius
BuildRectOne ==
  /\ rcPc = "built"
  /\ AllEqual(radii)
  /\ verticesOne' = roundedRectangleOne(size, radii.frontLeft)
  /\ rcPc' = "both"
  /\ UNCHANGED <<size, radii, vertices>>
  /\ UNCHANGED boxVars
  /\ UNCHANGED warpVars
  /\ UNCHANGED appVars

NextRect == BuildRect \/ BuildRectOne

----------------------------------------------------------------------------
(* The parameter state of main.ts.  Every value is a whole number of        *)
(* millimetres (the handlers parseInt, Math.floor or Math.round whatever    *)
(* they send).  A Dyn is its `latest`; `send` stores the value and calls    *)
(* the listeners at once, in the order they were added, so a handler is     *)
(* one step: the send and the whole cascade of listeners it sets off.       *)

START_RADIUS == 6
START_WALL == 2
START_BOTTOM == 3
START_LEVELS == 2
MIN_LEVELS == 1
MAX_LEVELS == 5
START_WIDTH == 80
MIN_WIDTH == 10 + 2 * START_RADIUS
MAX_WIDTH == 204
START_DEPTH == 60
MIN_DEPTH == 20
MAX_DEPTH == 204
MIN_RADIUS == 0
START_OPEN_FRONT_OPENNESS == 50
MIN_OPEN_FRONT_OPENNESS == 5
MAX_OPEN_FRONT_OPENNESS == 100
START_OPEN_FRONT_BOTTOM_OFFSET == 10
MIN_OPEN_FRONT_OFFSET == 0
START_OPEN_FRONT_RADIUS == 6
MIN_OPEN_FRONT_RADIUS == 0

Corners == {"frontLeft", "frontRight", "backLeft", "backRight"}

\* (claim checks only) a height of one full grid pitch per level
HeightOfLevelsFullPitch(x) == x * 40

\* modelDimensions.height: x * CLIP_HEIGHT + (x - 1) * (40 - CLIP_HEIGHT)
HeightOfLevels(x) == x * (CLIP_HEIGHT \div U) + (x - 1) * (40 - CLIP_HEIGHT \div U)

\* the map of maxBottomOffset
computeMaxBottomOffset(h, b) == FloorDiv(h - b, 1) - 1

\* maxHalf in the map of maxCutoutRadius ("Conservative: use max front/back
\* radii"), in length units
limitMaxHalf(w, d, rFL, rFR, rBL, rBR) ==
  LET frontR == U * Max2(rFL, rFR)
      backR == U * Max2(rBL, rBR)
      halfFrontFlat == RDiv(U * w, 2) - frontR
      cornerArc_front == PiHalfTimes(frontR)
      sideFlat == U * d - frontR - backR
      cornerArc_back == PiHalfTimes(backR)
  IN  halfFrontFlat + cornerArc_front + sideFlat + cornerArc_back

\* the map of maxCutoutRadius; the contour lengths are computed in length
\* units, the result is whole millimetres
computeMaxCutoutRadius(w, d, rFL, rFR, rBL, rBR, h, b, pct, botOff) ==
  LET maxHalf == limitMaxHalf(w, d, rFL, rFR, rBL, rBR)
      halfExtent == RDiv(pct * maxHalf, 100)
  IN  FloorDiv(Min2(halfExtent, RDiv(U * (h - b - botOff), 2)), U) - 1

\* the map of maxRadius
computeMaxRadius(d) == FloorDiv(d, 2)

\* bindRangeControl's onInput: Math.max(opts.min, Math.min(transform(val), getMax()))
RangeInput(val, min, mx) == Max2(min, Min2(val, mx))

\* the parameter state as one record, for the cascades below
UIState ==
  [levels |-> levels, dims |-> modelDimensions, radii |-> cornerRadii,
   linked |-> radiusLinked, main |-> mainRadiusDyn, enabled |-> openFrontEnabled,
   of |-> openFrontDimensions, maxBottomOffset |-> maxBottomOffset,
   maxCutoutRadius |-> maxCutoutRadius, maxRadius |-> maxRadius]

\* (claim checks only) maxCutoutRadius recomputed, its clamp listener left out
MaxCutoutRadiusUnclamped(s, hSeen) ==
  [s EXCEPT !.maxCutoutRadius =
      computeMaxCutoutRadius(s.dims.width, s.dims.depth, s.radii.frontLeft,
                             s.radii.frontRight, s.radii.backLeft, s.radii.backRight,
                             hSeen, s.dims.bottom, s.of.openness, s.of.bottomOffset)]

\* One element of maxCutoutRadius's sequence was sent: the sequence sends its
\* tuple, the map recomputes the maximum, and the clamp listener sends
\* Math.max(MIN_OPEN_FRONT_RADIUS, max) to cutoutRadius if it exceeds it.
\* hSeen is the height element of the tuple: inside height's own cascade
\* the sequence has not been told the new height when bottomOffset is sent.
MaxCutoutRadiusListeners(s, hSeen) ==
  LET mx == computeMaxCutoutRadius(s.dims.width, s.dims.depth, s.radii.frontLeft,
                                   s.radii.frontRight, s.radii.backLeft, s.radii.backRight,
                                   hSeen, s.dims.bottom, s.of.openness, s.of.bottomOffset)
  IN  [s EXCEPT !.maxCutoutRadius = mx,
                !.of.cutoutRadius = IF @ > mx THEN Max2(MIN_OPEN_FRONT_RADIUS, mx) ELSE @]

SendBottomOffset(s, val, hSeen) ==
  MaxCutoutRadiusListeners([s EXCEPT !.of.bottomOffset = val], hSeen)

SendOpenness(s, val) ==
  MaxCutoutRadiusListeners([s EXCEPT !.of.openness = val], s.dims.height)

SendCutoutRadius(s, val) == [s EXCEPT !.of.cutoutRadius = val]

SendCornerRadius(s, k, val) ==
  MaxCutoutRadiusListeners([s EXCEPT !.radii[k] = val], s.dims.height)

SendWidth(s, val) ==
  MaxCutoutRadiusListeners([s EXCEPT !.dims.width = val], s.dims.height)

\* (claim checks only) height's listeners without the clamp of bottomOffset
SendHeightUnclamped(s, val) ==
  MaxCutoutRadiusListeners(
    [s EXCEPT !.dims.height = val,
              !.maxBottomOffset = computeMaxBottomOffset(val, s.dims.bottom)], val)

\* height's listeners: maxBottomOffset's sequence (with its clamp listener),
\* then maxCutoutRadius's sequence
SendHeight(s, val) ==
  LET mbo == computeMaxBottomOffset(val, s.dims.bottom)
      s1 == [s EXCEPT !.dims.height = val, !.maxBottomOffset = mbo]
      s2 == IF s1.of.bottomOffset > mbo
              THEN SendBottomOffset(s1, Max2(MIN_OPEN_FRONT_OFFSET, mbo), s.dims.height)
              ELSE s1
  IN  MaxCutoutRadiusListeners(s2, val)

SendLevels(s, n) == SendHeight([s EXCEPT !.levels = n], HeightOfLevels(n))

\* one `if (cornerRadii.k.latest > max) cornerRadii.k.send(Math.max(MIN_RADIUS, max))`
ClampRadius(s, k) ==
  IF s.radii[k] > s.maxRadius
    THEN SendCornerRadius(s, k, Max2(MIN_RADIUS, s.maxRadius))
    ELSE s

\* depth's listeners: maxCutoutRadius's sequence, then maxRadius's map with
\* its clamp listener
SendDepth(s, val) ==
  LET s1 == MaxCutoutRadiusListeners([s EXCEPT !.dims.depth = val], s.dims.height)
      s2 == [s1 EXCEPT !.maxRadius = computeMaxRadius(val)]
  IN  ClampRadius(ClampRadius(ClampRadius(ClampRadius(s2,
        "frontLeft"), "frontRight"), "backLeft"), "backRight")

\* (claim checks only) a listener that forwards the value to the front corners only
SendMainRadiusFrontOnly(s, val) ==
  LET s1 == [s EXCEPT !.main = val]
  IN  IF s1.linked
        THEN SendCornerRadius(SendCornerRadius(s1, "frontLeft", val), "frontRight", val)
        ELSE s1

\* mainRadiusDyn's listener
SendMainRadius(s, val) ==
  LET s1 == [s EXCEPT !.main = val]
  IN  IF s1.linked
        THEN SendCornerRadius(SendCornerRadius(SendCornerRadius(SendCornerRadius(s1,
               "frontLeft", val), "frontRight", val), "backLeft", val), "backRight", val)
        ELSE s1

\* the handler is done: the Dyns hold the values the cascade left
Settle(s, control, val) ==
  /\ levels' = s.levels
  /\ modelDimensions' = s.dims
  /\ cornerRadii' = s.radii
  /\ radiusLinked' = s.linked
  /\ mainRadiusDyn' = s.main
  /\ openFrontEnabled' = s.enabled
  /\ openFrontDimensions' = s.of
  /\ maxBottomOffset' = s.maxBottomOffset
  /\ maxCutoutRadius' = s.maxCutoutRadius
  /\ maxRadius' = s.maxRadius
  /\ lastInput' = [control |-> control, value |-> val]
  /\ events' = events + 1
  /\ UNCHANGED <<rectVars, radii, boxVars, warpVars, loopVars, auxVars>>

\* Largest number of input events followed from the start of the page.
MaxEvents == 5

\* what parseInt can read off a control: values below, inside and above its range
LevelInputs == {0, 3, 9}
WidthInputs == {0, 300}
DepthInputs == {0, 300}
RadiusInputs == {0, 4, 300}
OpennessInputs == {0, 100}
BottomOffsetInputs == {0, 300}
CutoutRadiusInputs == {0, 3, 300}

NoInput == [control |-> "none", value |-> 0]

UIIdle ==
  /\ levels = 0
  /\ modelDimensions = [height |-> 0, width |-> 0, depth |-> 0, wall |-> 0, bottom |-> 0]
  /\ cornerRadii = [frontLeft |-> 0, frontRight |-> 0, backLeft |-> 0, backRight |-> 0]
  /\ radiusLinked = FALSE
  /\ mainRadiusDyn = 0
  /\ openFrontEnabled = FALSE
  /\ openFrontDimensions = [openness |-> 0, bottomOffset |-> 0, cutoutRadius |-> 0]
  /\ maxBottomOffset = 0
  /\ maxCutoutRadius = 0
  /\ maxRadius = 0
  /\ lastInput = NoInput
  /\ events = 0

\* the state section of main.ts, as the page loads
UIInit ==
  /\ levels = START_LEVELS
  /\ modelDimensions = [height |-> HeightOfLevels(START_LEVELS), width |-> START_WIDTH,
                        depth |-> START_DEPTH, wall |-> START_WALL, bottom |-> START_BOTTOM]
  /\ cornerRadii = [frontLeft |-> START_RADIUS, frontRight |-> START_RADIUS,
                    backLeft |-> START_RADIUS, backRight |-> START_RADIUS]
  /\ radiusLinked = TRUE
  /\ mainRadiusDyn = START_RADIUS
  /\ openFrontEnabled = FALSE
  /\ openFrontDimensions = [openness |-> START_OPEN_FRONT_OPENNESS,
                            bottomOffset |-> START_OPEN_FRONT_BOTTOM_OFFSET,
                            cutoutRadius |-> START_OPEN_FRONT_RADIUS]
  /\ maxBottomOffset = computeMaxBottomOffset(HeightOfLevels(START_LEVELS), START_BOTTOM)
  /\ maxCutoutRadius =
       computeMaxCutoutRadius(START_WIDTH, START_DEPTH, START_RADIUS, START_RADIUS,
                              START_RADIUS, START_RADIUS, HeightOfLevels(START_LEVELS),
                              START_BOTTOM, START_OPEN_FRONT_OPENNESS,
                              START_OPEN_FRONT_BOTTOM_OFFSET)
  /\ maxRadius = computeMaxRadius(START_DEPTH)
  /\ lastInput = NoInput
  /\ events = 0

\* "change" on #levels
LevelsInput ==
  /\ events < MaxEvents
  /\ \E n \in LevelInputs :
       Settle(SendLevels(UIState, Max2(MIN_LEVELS, Min2(n, MAX_LEVELS))), "levels", n)

\* "click" on #levels-plus (disabled once MAX_LEVELS <= levels)
LevelsPlus ==
  /\ events < MaxEvents
  /\ levels < MAX_LEVELS
  /\ Settle(SendLevels(UIState, Max2(MIN_LEVELS, Min2(levels + 1, MAX_LEVELS))),
            "levelsPlus", 0)

\* "click" on #levels-minus (disabled once levels <= MIN_LEVELS)
LevelsMinus ==
  /\ events < MaxEvents
  /\ MIN_LEVELS < levels
  /\ Settle(SendLevels(UIState, Max2(MIN_LEVELS, Min2(levels - 1, MAX_LEVELS))),
            "levelsMinus", 0)

\* the width control: the input is the inner width
WidthInput ==
  /\ events < MaxEvents
  /\ \E val \in WidthInputs :
       Settle(SendWidth(UIState, RangeInput(val + 2 * modelDimensions.wall,
                                            MIN_WIDTH, MAX_WIDTH)), "width", val)

\* the depth control: the input is the inner depth
DepthInput ==
  /\ events < MaxEvents
  /\ \E val \in DepthInputs :
       Settle(SendDepth(UIState, RangeInput(val + 2 * modelDimensions.wall,
                                            MIN_DEPTH, MAX_DEPTH)), "depth", val)

\* "click" on the link button; re-linking sends the rounded average of the
\* four radii to mainRadiusDyn
RadiusLinkClick ==
  /\ events < MaxEvents
  /\ LET wasLinked == radiusLinked
         s1 == [UIState EXCEPT !.linked = ~wasLinked]
         avg == RDiv(cornerRadii.frontLeft + cornerRadii.frontRight
                       + cornerRadii.backLeft + cornerRadii.backRight, 4)
     IN  Settle(IF ~wasLinked THEN SendMainRadius(s1, avg) ELSE s1, "radiusLink", 0)

\* the main radius control (displayed while the radii are linked)
MainRadiusInput ==
  /\ events < MaxEvents
  /\ radiusLinked
  /\ \E val \in RadiusInputs :
       Settle(SendMainRadius(UIState, RangeInput(val, MIN_RADIUS, maxRadius)), "radius", val)

\* the four corner controls (displayed while the radii are unlinked)
CornerRadiusInput ==
  /\ events < MaxEvents
  /\ ~radiusLinked
  /\ \E k \in Corners : \E val \in RadiusInputs :
       Settle(SendCornerRadius(UIState, k, RangeInput(val, MIN_RADIUS, maxRadius)), k, val)

\* "change" on the front-opening toggle
OpenFrontToggle ==
  /\ events < MaxEvents
  /\ Settle([UIState EXCEPT !.enabled = ~openFrontEnabled], "openFront", 0)

\* the three controls of the front opening (displayed while it is enabled)
OpennessInput ==
  /\ events < MaxEvents
  /\ openFrontEnabled
  /\ \E val \in OpennessInputs :
       Settle(SendOpenness(UIState, RangeInput(val, MIN_OPEN_FRONT_OPENNESS,
                                               MAX_OPEN_FRONT_OPENNESS)),
              "openFrontOpenness", val)

BottomOffsetInput ==
  /\ events < MaxEvents
  /\ openFrontEnabled
  /\ \E val \in BottomOffsetInputs :
       Settle(SendBottomOffset(UIState, RangeInput(val, MIN_OPEN_FRONT_OFFSET, maxBottomOffset),
                               modelDimensions.height),
              "openFrontBottomOffset", val)

CutoutRadiusInput ==
  /\ events < MaxEvents
  /\ openFrontEnabled
  /\ \E val \in CutoutRadiusInputs :
       Settle(SendCutoutRadius(UIState, RangeInput(val, MIN_OPEN_FRONT_RADIUS, maxCutoutRadius)),
              "openFrontRadius", val)

NextUI ==
  \/ LevelsInput \/ LevelsPlus \/ LevelsMinus
  \/ WidthInput \/ DepthInput
  \/ RadiusLinkClick \/ MainRadiusInput \/ CornerRadiusInput
  \/ OpenFrontToggle \/ OpennessInput \/ BottomOffsetInput \/ CutoutRadiusInput

----------------------------------------------------------------------------
(* The frame loop of main.ts and the reloadModel promises it starts.  Time  *)
(* is in whole milliseconds.  What the loop reads from the animations is    *)
(* an input of the frame (whether any of them moved); when a promise        *)
(* settles is up to the kernel.                                             *)

\* `undefined` for modelLoadStarted, and for a mesh no reload has assigned yet
Undefined == 0 - 1

\* Last timestamp a frame is followed to.
MaxMillis == 250

\* time between two frames: a display frame, and a late frame
FrameGaps == {16, 101}

\* Largest number of parameter changes followed.
MaxChanges == 1

\* Largest number of frames an animation takes to reach its target.
MaxAnimFrames == 2

LoopIdle ==
  /\ reloadModelNeeded = FALSE
  /\ modelLoadStarted = Undefined
  /\ nowMillis = 0
  /\ pending = {}
  /\ centerCameraNeeded = FALSE
  /\ meshFrom = Undefined
  /\ paramVersion = 0
  /\ animLeft = 0
  /\ startedWith = Undefined

\* the module-level `let`s, before the first frame
LoopInit ==
  /\ reloadModelNeeded = TRUE
  /\ modelLoadStarted = Undefined
  /\ nowMillis = 0
  /\ pending = {}
  /\ centerCameraNeeded = TRUE
  /\ meshFrom = Undefined
  /\ paramVersion = 0
  /\ animLeft = 0
  /\ startedWith = Undefined

\* (claim checks only) a test that waits for the running reload, however long it takes
reloadModelNowWhenIdle(needed, started, now) ==
  needed /\ started = Undefined

\* reloadModelNow
reloadModelNow(needed, started, now) ==
  needed /\ (started = Undefined \/ now - started > 100)

\* Animate.update() over all animations: whether any `current` changed in
\* this frame, which is so while an animation is under way
AnimateUpdate(left) == left > 0

\* the frames left after this frame's update()
AnimateAdvance(left) == Max2(0, left - 1)

\* loop(nowMillis): one animation frame; a reloadModel started in it reads
\* the `current` of every animation after this frame's update()
Frame ==
  \E gap \in FrameGaps :
    LET now == nowMillis + gap
        dimensionsUpdated == AnimateUpdate(animLeft)
        needed == reloadModelNeeded \/ dimensionsUpdated
    IN  /\ now <= MaxMillis
        /\ nowMillis' = now
        /\ animLeft' = AnimateAdvance(animLeft)
        /\ IF reloadModelNow(needed, modelLoadStarted, now)
             THEN /\ modelLoadStarted' = now
                  /\ reloadModelNeeded' = FALSE
                  /\ pending' = pending \cup {now}
                  /\ startedWith' = IF AnimateAdvance(animLeft) = 0 THEN paramVersion
                                                                    ELSE Undefined
             ELSE /\ reloadModelNeeded' = needed
                  /\ UNCHANGED <<modelLoadStarted, pending, startedWith>>
        /\ centerCameraNeeded' = FALSE
        /\ UNCHANGED <<meshFrom, paramVersion>>
        /\ UNCHANGED <<rectVars, radii, boxVars, warpVars, uiVars, auxVars>>

\* a listener of a dimension, a corner radius or a front-opening value:
\* animation.startAnimationTo(val)
ParamListener ==
  /\ paramVersion < MaxChanges
  /\ paramVersion' = paramVersion + 1
  /\ animLeft' \in 1..MaxAnimFrames
  /\ UNCHANGED <<reloadModelNeeded, modelLoadStarted, nowMillis, pending, centerCameraNeeded,
                 meshFrom, startedWith>>
  /\ UNCHANGED <<rectVars, radii, boxVars, warpVars, uiVars, auxVars>>

\* the listeners of openFrontEnabled and cornerClipsOnly (read by the loop
\* through `.latest`, not animated)
ToggleListener ==
  /\ paramVersion < MaxChanges
  /\ paramVersion' = paramVersion + 1
  /\ reloadModelNeeded' = TRUE
  /\ UNCHANGED <<modelLoadStarted, nowMillis, pending, centerCameraNeeded, meshFrom,
                 animLeft, startedWith>>
  /\ UNCHANGED <<rectVars, radii, boxVars, warpVars, uiVars, auxVars>>

\* a reloadModel finishes: it assigns mesh.geometry, then the `then` callback runs
ReloadResolved ==
  \E t \in pending :
    /\ pending' = pending \ {t}
    /\ meshFrom' = t
    /\ modelLoadStarted' = Undefined
    /\ centerCameraNeeded' = TRUE
    /\ UNCHANGED <<reloadModelNeeded, nowMillis, paramVersion, animLeft, startedWith>>
    /\ UNCHANGED <<rectVars, radii, boxVars, warpVars, uiVars, auxVars>>

\* a reloadModel throws: the `catch` callback runs
ReloadRejected ==
  \E t \in pending :
    /\ pending' = pending \ {t}
    /\ modelLoadStarted' = Undefined
    /\ UNCHANGED <<reloadModelNeeded, nowMillis, centerCameraNeeded, meshFrom,
                   paramVersion, animLeft, startedWith>>
    /\ UNCHANGED <<rectVars, radii, boxVars, warpVars, uiVars, auxVars>>

NextLoop == Frame \/ ParamListener \/ ToggleListener \/ ReloadResolved \/ ReloadRejected

----------------------------------------------------------------------------
(* ManifoldModule.get() called by several box() calls at once.  Every       *)
(* helper of box() begins with `await ManifoldModule.get()`.  JavaScript    *)
(* runs a call up to its next await without interruption, so a call of      *)
(* get() is three steps: up to `await init(...)`, from there up to          *)
(* `await this.wasm.setup()`, and the return.                               *)

\* Largest number of get() calls followed together.
MaxCalls == 3

Calls == 1..MaxCalls

KernelIdle ==
  /\ wasm = Undefined
  /\ initCalls = 0
  /\ setupCalls = 0
  /\ getPc = << >>

\* the class as loaded: `private static wasm = undefined`, no call made yet
KernelInit ==
  /\ wasm = Undefined
  /\ initCalls = 0
  /\ setupCalls = 0
  /\ getPc = [c \in Calls |-> "idle"]

\* get() is entered: `if (this.wasm !== undefined) return this.wasm;`,
\* else init(...) is called and the call waits for it
GetEnter ==
  \E c \in Calls :
    /\ getPc[c] = "idle"
    /\ IF wasm # Undefined
         THEN /\ getPc' = [getPc EXCEPT ![c] = "returned"]
              /\ UNCHANGED initCalls
         ELSE /\ getPc' = [getPc EXCEPT ![c] = "init"]
              /\ initCalls' = initCalls + 1
    /\ UNCHANGED <<wasm, setupCalls>>
    /\ UNCHANGED <<rectVars, radii, boxVars, warpVars, uiVars, loopVars, arcVars, crossVars,
                 mouseVars>>

\* init resolves: `this.wasm = await init(...)`, then this.wasm.setup() is called
InitResolved ==
  \E c \in Calls :
    /\ getPc[c] = "init"
    /\ wasm' = c
    /\ setupCalls' = setupCalls + 1
    /\ getPc' = [getPc EXCEPT ![c] = "setup"]
    /\ UNCHANGED initCalls
    /\ UNCHANGED <<rectVars, radii, boxVars, warpVars, uiVars, loopVars, arcVars, crossVars,
                 mouseVars>>

\* `await this.wasm.setup()` is over: `return this.wasm`
GetReturn ==
  \E c \in Calls :
    /\ getPc[c] = "setup"
    /\ getPc' = [getPc EXCEPT ![c] = "returned"]
    /\ UNCHANGED <<wasm, initCalls, setupCalls>>
    /\ UNCHANGED <<rectVars, radii, boxVars, warpVars, uiVars, loopVars, arcVars, crossVars,
                 mouseVars>>

NextKernel == GetEnter \/ InitResolved \/ GetReturn

----------------------------------------------------------------------------
(* Harness of generateArc: the arguments are drawn from bounded sets, then  *)
(* the function is applied.                                                 *)

\* Largest segment count drawn.
MaxSegments == 11

\* segment counts whose angle step is a whole number of angle steps
ArcSegments == { n \in 0..MaxSegments : Q % (n + 1) = 0 }

\* start and end angles: the multiples of PI/2 the callers use
ArcAngles == { k * Q : k \in 0..4 }

ArcIdle ==
  /\ arcArgs = [center |-> <<0, 0>>, radius |-> 0, startAngle |-> 0, endAngle |-> 0,
                segments |-> 0]
  /\ arcPts = << >>
  /\ arcPc = "idle"

ArcInit ==
  /\ arcArgs \in [center : { <<0, 0>>, <<34 * U, 0 - 24 * U>> },
                   radius : { 0, 6 * U, MaxRadiusMM * U },
                   startAngle : ArcAngles, endAngle : ArcAngles,
                   segments : ArcSegments]
  /\ arcPts = << >>
  /\ arcPc = "args"

BuildArc ==
  /\ arcPc = "args"
  /\ arcPts' = generateArc(arcArgs.center, arcArgs.radius, arcArgs.startAngle,
                           arcArgs.endAngle, arcArgs.segments)
  /\ arcPc' = "built"
  /\ UNCHANGED arcArgs
  /\ UNCHANGED <<rectVars, radii, boxVars, warpVars, uiVars, loopVars, kernelVars, crossVars,
                 mouseVars>>

NextArc == BuildArc

----------------------------------------------------------------------------
(* Harness of frontCutoutCrossSection: the arguments are drawn from bounded *)
(* sets, then the function is applied.                                      *)

\* half extents, heights, offsets and radii drawn, in mm
CrossExtentsMM == {0, 3, 10, 40}
CrossHeightsMM == {12, 52}
CrossOffsetsMM == {0, 8, 10}
CrossRadiiMM == {0 - 1, 0, 3, 6, 50}
CrossTopRadiiMM == {0, 3}

NoCrossArgs ==
  [halfExtent_R |-> 0, halfExtent_L |-> 0, height |-> 0, bottom |-> 0,
   bottomOffset |-> 0, cutoutRadius |-> 0, topR |-> 0]

CrossIdle ==
  /\ csArgs = NoCrossArgs
  /\ cs = [r |-> 0, rounded |-> FALSE, vertices |-> << >>]
  /\ csPc = "idle"

CrossInit ==
  /\ csArgs \in [halfExtent_R : { U * x : x \in CrossExtentsMM },
                  halfExtent_L : { U * x : x \in CrossExtentsMM },
                  height : { U * x : x \in CrossHeightsMM },
                  bottom : { 3 * U },
                  bottomOffset : { U * x : x \in CrossOffsetsMM },
                  cutoutRadius : { U * x : x \in CrossRadiiMM },
                  topR : { U * x : x \in CrossTopRadiiMM }]
  /\ cs = [r |-> 0, rounded |-> FALSE, vertices |-> << >>]
  /\ csPc = "args"

BuildCrossSection ==
  /\ csPc = "args"
  /\ cs' = frontCutoutCrossSection(csArgs.halfExtent_R, csArgs.halfExtent_L, csArgs.height,
                                   csArgs.bottom, csArgs.bottomOffset, csArgs.cutoutRadius,
                                   csArgs.topR)
  /\ csPc' = "built"
  /\ UNCHANGED csArgs
  /\ UNCHANGED <<rectVars, radii, boxVars, warpVars, uiVars, loopVars, kernelVars, arcVars,
                 mouseVars>>

NextCross == BuildCrossSection

----------------------------------------------------------------------------
(* Part positioning: the mouse and touch handlers of main.ts, the listener  *)
(* of partPositioning and the animated rotation.  A rotation is an integer  *)
(* number of pixels, of which RotUnit make one unit of rotation (dwdx is    *)
(* 2 / canvasWidth per pixel).                                              *)

\* renderer.canvasWidth, in CSS pixels
CanvasWidth == 40

\* pixels per unit of rotation: 1 / dwdx
RotUnit == CanvasWidth \div 2

\* x of the events followed
Pixels == {0, 5, 15, 25, 40}

\* JavaScript's %: the remainder has the sign of the dividend
JsRem(a, n) == IF a >= 0 THEN a % n ELSE 0 - ((0 - a) % n)

\* (claim checks only) a bound that wraps with the floored modulo
boundFloored(val, lo, hi) == ((val - lo) % (hi - lo)) + lo

\* bound(v, [lo, hi]) = ((v - lo) % (hi - lo)) + lo
bound(val, lo, hi) == JsRem(val - lo, hi - lo) + lo

\* Math.round of a rotation, in whole units
RoundRot(r) == FloorDiv(2 * r + RotUnit, 2 * RotUnit)

\* a PartPosition; the fields a tag does not have are 0
Static(position) ==
  [tag |-> "static", position |-> position, startRot |-> 0, startPos |-> 0,
   lastStatic |-> 0, x |-> 0]

\* Animate.startAnimationTo(target, easing?)
startAnimationTo(rot, target, imm) == [rot EXCEPT !.target = target, !.immediate = imm]

\* the listener of partPositioning: what it makes of rotation and of the
\* value bound returned
PositionListener(val, rot, lb) ==
  IF val.tag = "static"
    THEN [rotation |-> startAnimationTo(rot, val.position * RotUnit, FALSE), lastBound |-> lb]
  ELSE IF val.tag = "moving"
    THEN LET vv == (val.x - val.startPos) - val.startRot
             b == bound(vv, 0 - RotUnit, RotUnit)
         IN  [rotation |-> startAnimationTo(rot, b, TRUE), lastBound |-> b]
  ELSE [rotation |-> rot, lastBound |-> lb]

\* (claim checks only) a press that starts over while the part is being moved
readyMouseUpdateRestart(val, x, rotCurrent) ==
  IF val.tag = "will-move"
    THEN val
    ELSE [tag |-> "will-move", position |-> 0, startRot |-> rotCurrent, startPos |-> x,
          lastStatic |-> IF val.tag = "static" THEN val.position ELSE val.lastStatic, x |-> 0]

\* the function readyMouse passes to partPositioning.update
readyMouseUpdate(val, x, rotCurrent) ==
  IF val.tag = "will-move" \/ val.tag = "moving"
    THEN val
    ELSE [tag |-> "will-move", position |-> 0, startRot |-> rotCurrent, startPos |-> x,
          lastStatic |-> val.position, x |-> 0]

\* the function trackMouse passes to partPositioning.update
trackMouseUpdate(val, x) ==
  IF val.tag = "will-move" \/ val.tag = "moving"
    THEN [val EXCEPT !.tag = "moving", !.x = x]
    ELSE val

\* toggle of forgetMouse
toggle(position) == IF position = 0 THEN 1 ELSE 0

\* the function forgetMouse passes to partPositioning.update; quick is
\* `elapsed < 0.3` of the clock started at the press
forgetMouseUpdate(was, quick, rotCurrent) ==
  IF was.tag = "will-move" THEN Static(toggle(was.lastStatic))
  ELSE IF was.tag = "static" THEN Static(toggle(was.position))
  ELSE IF quick /\ Abs(was.x - was.startPos) < 15 THEN Static(toggle(was.lastStatic))
  ELSE LET rounded == RoundRot(bound(rotCurrent, 0 - RotUnit, RotUnit))
       IN  IF rounded <= 0 - 1 THEN Static(0 - 1)
           ELSE IF 1 <= rounded THEN Static(1)
           ELSE Static(0)

MouseIdle ==
  /\ partPositioning = Static(0)
  /\ rotation = [current |-> 0, target |-> 0, immediate |-> FALSE]
  /\ mouseListening = FALSE
  /\ mouseEvent = "idle"
  /\ lastBound = 0

\* `new Dyn<PartPosition>({ tag: "static", position: 0 })`, `new Animate(0)`
MouseInit ==
  /\ partPositioning = Static(0)
  /\ rotation = [current |-> 0, target |-> 0, immediate |-> FALSE]
  /\ mouseListening = FALSE
  /\ mouseEvent = "none"
  /\ lastBound = 0

MouseOthersUnchanged ==
  UNCHANGED <<rectVars, radii, boxVars, warpVars, uiVars, loopVars, kernelVars, arcVars, crossVars>>

\* mousedown / touchstart on the canvas, on a transparent pixel: readyMouse returns early
ReadyMouseMiss ==
  /\ mouseEvent' = "miss"
  /\ UNCHANGED <<partPositioning, rotation, mouseListening, lastBound>>
  /\ MouseOthersUnchanged

\* mousedown / touchstart on the part
ReadyMouse ==
  \E x \in Pixels :
    LET val == readyMouseUpdate(partPositioning, x, rotation.current)
        l == PositionListener(val, rotation, lastBound)
    IN  /\ partPositioning' = val
        /\ rotation' = l.rotation
        /\ lastBound' = l.lastBound
        /\ mouseListening' = TRUE
        /\ mouseEvent' = "press"
        /\ MouseOthersUnchanged

\* mousemove / touchmove on the window, while trackMouse is registered
TrackMouse ==
  /\ mouseListening
  /\ \E x \in Pixels :
       LET val == trackMouseUpdate(partPositioning, x)
           l == PositionListener(val, rotation, lastBound)
       IN  /\ partPositioning' = val
           /\ rotation' = l.rotation
           /\ lastBound' = l.lastBound
  /\ mouseEvent' = "move"
  /\ UNCHANGED mouseListening
  /\ MouseOthersUnchanged

\* mouseup / touchend on the window, while forgetMouse is registered
ForgetMouse ==
  /\ mouseListening
  /\ \E quick \in BOOLEAN :
       LET val == forgetMouseUpdate(partPositioning, quick, rotation.current)
           snapped == partPositioning.tag = "moving"
                        /\ ~(quick /\ Abs(partPositioning.x - partPositioning.startPos) < 15)
           l == PositionListener(val, rotation, lastBound)
       IN  /\ partPositioning' = val
           /\ rotation' = l.rotation
           /\ lastBound' = IF snapped THEN bound(rotation.current, 0 - RotUnit, RotUnit)
                                      ELSE l.lastBound
  /\ mouseListening' = FALSE
  /\ mouseEvent' = "release"
  /\ MouseOthersUnchanged

\* the values between a and b, b included, a not
Towards(a, b) ==
  IF a <= b THEN { c \in (a + 1)..b : (b - c) % 5 = 0 } ELSE { c \in b..(a - 1) : (c - b) % 5 = 0 }

\* loop(): rotation.update() while the rotation is under way: an immediate
\* target is taken at once, another is approached or reached
RotationFrame ==
  /\ rotation.current # rotation.target
  /\ \E c \in Towards(rotation.current, rotation.target) :
       /\ rotation.immediate => c = rotation.target
       /\ rotation' = [rotation EXCEPT !.current = c]
  /\ mouseEvent' = "frame"
  /\ UNCHANGED <<partPositioning, mouseListening, lastBound>>
  /\ MouseOthersUnchanged

NextMouse == ReadyMouseMiss \/ ReadyMouse \/ TrackMouse \/ ForgetMouse \/ RotationFrame

----------------------------------------------------------------------------
(* Specifications: each takes its own part of the state through its steps   *)
(* and leaves the rest idle.                                                *)

RectUnused == size = <<0, 0>> /\ vertices = << >> /\ verticesOne = << >> /\ rcPc = "idle"

\* the harnesses and the kernel loader, not in use
AuxIdle == KernelIdle /\ ArcIdle /\ CrossIdle /\ MouseIdle

\* roundedRectangle on drawn arguments
InitRect == RectInit /\ BoxIdle /\ WarpIdle /\ UIIdle /\ LoopIdle /\ AuxIdle
SpecRect == InitRect /\ [][NextRect]_vars

\* one call of box()
InitBox == BoxInit /\ RectUnused /\ WarpIdle /\ UIIdle /\ LoopIdle /\ AuxIdle
SpecBox == InitBox /\ [][NextBox]_vars

\* frontCutout and its warp callback on the vertices of the cutout
InitWarp == WarpInit /\ RectUnused /\ UIIdle /\ LoopIdle /\ AuxIdle
SpecWarp == InitWarp /\ [][NextWarp]_vars

\* the controls of the page, from the start values
InitUI == UIInit /\ RectIdle /\ BoxIdle /\ WarpIdle /\ LoopIdle /\ AuxIdle
SpecUI == InitUI /\ [][NextUI]_vars

\* concurrent calls of ManifoldModule.get()
InitKernel == KernelInit /\ RectIdle /\ BoxIdle /\ WarpIdle /\ UIIdle /\ LoopIdle
                /\ ArcIdle /\ CrossIdle /\ MouseIdle
SpecKernel == InitKernel /\ [][NextKernel]_vars

\* generateArc on drawn arguments
InitArc == ArcInit /\ RectIdle /\ BoxIdle /\ WarpIdle /\ UIIdle /\ LoopIdle
             /\ KernelIdle /\ CrossIdle /\ MouseIdle
SpecArc == InitArc /\ [][NextArc]_vars

\* frontCutoutCrossSection on drawn arguments
InitCross == CrossInit /\ RectIdle /\ BoxIdle /\ WarpIdle /\ UIIdle /\ LoopIdle
               /\ KernelIdle /\ ArcIdle /\ MouseIdle
SpecCross == InitCross /\ [][NextCross]_vars

\* the frame loop, from the load of the page
InitLoop == LoopInit /\ RectIdle /\ BoxIdle /\ WarpIdle /\ UIIdle /\ AuxIdle
SpecLoop == InitLoop /\ [][NextLoop]_vars

\* part positioning, from the load of the page
InitMouse == MouseInit /\ RectIdle /\ BoxIdle /\ WarpIdle /\ UIIdle /\ LoopIdle
               /\ KernelIdle /\ ArcIdle /\ CrossIdle
SpecMouse == InitMouse /\ [][NextMouse]_vars

\* the frame loop with its scheduling: requestAnimationFrame(loop) at the top
\* of every frame keeps frames arriving
SpecLoopLive == SpecLoop /\ WF_vars(Frame)

----------------------------------------------------------------------------
(* Polygon predicates *)

\* the sign of the cross product (b - a) x (c - a): 1 = c left of a->b
Orient(a, b, c) ==
  Sign((b[1] - a[1]) * (c[2] - a[2]) - (b[2] - a[2]) * (c[1] - a[1]))

\* segments a-b and c-d cross at a point interior to both
ProperCross(a, b, c, d) ==
  /\ Orient(a, b, c) * Orient(a, b, d) < 0
  /\ Orient(c, d, a) * Orient(c, d, b) < 0

\* the vertex after p[i] in the closed polygon p
Succ(p, i) == p[(i % Len(p)) + 1]

NonSelfIntersecting(p) ==
  \A i \in 1..Len(p) : \A j \in (i + 1)..Len(p) :
     ~ProperCross(p[i], Succ(p, i), p[j], Succ(p, j))

\* twice the signed area of the closed polygon (shoelace), in units of U*U so
\* that the sum stays in range
RECURSIVE Shoelace(_, _)
Shoelace(p, i) ==
  IF i > Len(p) THEN 0
  ELSE (p[i][1] * Succ(p, i)[2] - Succ(p, i)[1] * p[i][2]) \div (U * U)
         + Shoelace(p, i + 1)

Succ2Index(i, n) == (i % n) + 1

\* no vertex turns right
NoRightTurn(p) ==
  \A i \in 1..Len(p) : Orient(p[i], Succ(p, i), Succ(p, Succ2Index(i, Len(p)))) >= 0

\* block k (1..4) of n points lies in its own quadrant: +x+y, -x+y, -x-y, +x-y
InQuadrant(pt, k) ==
  /\ (IF k \in {1, 4} THEN pt[1] >= 0 ELSE pt[1] <= 0)
  /\ (IF k \in {1, 2} THEN pt[2] >= 0 ELSE pt[2] <= 0)

OneBlockPerCorner(p, n) ==
  \A k \in 1..4 : \A i \in 1..n : InQuadrant(p[(k - 1) * n + i], k)

\* C1: for every size and every CornerRadii with the four radii in
\* [0, min(width,depth)/2], the per-corner builder returns exactly
\* 4*(segments+2) points, one block of segments+2 per corner, forming a closed
\* polygon that is counter-clockwise (positive area, no right turn) and has
\* no two edges crossing.
C1_RoundedRectangleShape ==
  rcPc \in {"built", "both"} =>
     /\ Len(vertices) = 4 * (segments + 2)
     /\ OneBlockPerCorner(vertices, segments + 2)
     /\ Shoelace(vertices, 1) > 0
     /\ NoRightTurn(vertices)
     /\ NonSelfIntersecting(vertices)

\* a rectangle with four different radii, one of them 0 and one at the limit, was built
C1_Witness ==
  /\ rcPc = "built"
  /\ radii.frontLeft = 3 * U /\ radii.frontRight = 6 * U
  /\ radii.backLeft = U * MaxRadiusMM /\ radii.backRight = 0
  /\ 2 * radii.backLeft = Min2(size[1], size[2])

\* C2: with the four radii equal to r, the per-corner builder returns the
\* same vertex sequence as the single-radius builder called with r.
C2_EqualRadiiSamePolygon ==
  rcPc = "both" => vertices = verticesOne

\* both builders ran on a rounded rectangle with a common non-zero radius
C2_Witness ==
  /\ rcPc = "both"
  /\ radii.frontLeft = 6 * U
  /\ Len(verticesOne) = 4 * (segments + 2)

----------------------------------------------------------------------------
(* Claims about one call of box() *)

CutoutRan == bxPc \in {"clips", "done"} /\ openFront.defined

\* the refine + warp step was applied to the cutout
WarpApplied == \E k \in 1..Len(ops) : ops[k].op = "warp"

\* the arguments frontCutout received from base()
AugmentedOpenFront == Augment(openFront, width, radii, Grid(height, width, radii))

\* what frontCutout computes for the same box and another openness (percent)
CutoutAt(pct) ==
  frontCutout(height, width, depth, radii, wall, bottom, pct,
              AugmentedOpenFront.bottomOffset, AugmentedOpenFront.cutoutRadius,
              AugmentedOpenFront.backFlatAllowance_R, AugmentedOpenFront.backFlatAllowance_L)

\* on at least one side the half-extent plus the top flare exceeds width/2 - frontRadius
ExtentExceedsFrontFlat ==
  \/ cutout.halfExtent_R + cutout.topR > RDiv(width, 2) - radii.frontLeft
  \/ cutout.halfExtent_L + cutout.topR > RDiv(width, 2) - radii.frontRight

\* C4 (as claimed): frontCutout applies the refine + warp step exactly when,
\* on at least one side, half-extent plus top flare exceeds that side's
\* front-flat span width/2 - frontRadius, for every front radius, 0 included.
C4_WarpIffExtentExceedsFrontFlat ==
  CutoutRan => (WarpApplied <=> ExtentExceedsFrontFlat)

\* the grid positions at which both clips of a pair were unioned
ClipPairs ==
  { p \in (0..3) \X (0..MaxLevelsDrawn) :
      /\ \E k \in 1..Len(ops) : ops[k] = Op("add", "clipL", p[1], p[2])
      /\ \E k \in 1..Len(ops) : ops[k] = Op("add", "clipR", p[1], p[2]) }

NumAdds == Cardinality({ k \in 1..Len(ops) : ops[k].op = "add" })

\* openness from 5% to 100% in steps of 5%
OpennessSteps == { 5 * k : k \in 1..20 }

\* C5: with all other parameters fixed, each side's half-extent is
\* monotonically non-decreasing in openness over [0.05, 1.0]: no larger
\* openness gives a smaller half-extent than the one frontCutout computed, no
\* smaller openness a larger one.
C5_HalfExtentMonotoneInOpenness ==
  (bxPc = "done" /\ openFront.defined) =>
    \A pct \in OpennessSteps :
       LET other == CutoutAt(pct)
       IN  /\ pct >= openFront.openness =>
                /\ other.halfExtent_R >= cutout.halfExtent_R
                /\ other.halfExtent_L >= cutout.halfExtent_L
           /\ pct <= openFront.openness =>
                /\ other.halfExtent_R <= cutout.halfExtent_R
                /\ other.halfExtent_L <= cutout.halfExtent_L

\* a half-open cutout whose extent lies strictly between those of 5% and 100%
C5_Witness ==
  /\ bxPc = "done" /\ openFront.defined /\ openFront.openness = 50
  /\ CutoutAt(5).halfExtent_R < cutout.halfExtent_R
  /\ cutout.halfExtent_R < CutoutAt(100).halfExtent_R
  /\ radii.frontLeft # radii.frontRight

\* cutout radii tried besides the one drawn, up to far beyond every clip limit
CutoutRadiiTriedMM == {0, 6, 25, 45, 120, 400}

\* what frontCutout computes for the same box, another openness and another radius
CutoutWith(pct, cr) ==
  frontCutout(height, width, depth, radii, wall, bottom, pct,
              AugmentedOpenFront.bottomOffset, cr,
              AugmentedOpenFront.backFlatAllowance_R, AugmentedOpenFront.backFlatAllowance_L)

ReachWithinLimit(fc) ==
  /\ fc.halfExtent_R >= 0 /\ fc.halfExtent_L >= 0 /\ fc.topR >= 0
  /\ fc.halfExtent_R + fc.topR <= fc.maxHalf_R + AugmentedOpenFront.backFlatAllowance_R
  /\ fc.halfExtent_L + fc.topR <= fc.maxHalf_L + AugmentedOpenFront.backFlatAllowance_L

\* C23: for every openness in (0,1], every cutoutRadius >= 0 and
\* height > bottom + bottomOffset, frontCutout keeps each side's reach within
\* its limit: halfExtent + topR <= maxHalf + backFlatAllowance, with
\* halfExtent >= 0 and topR >= 0 (for the cutout computed and for the same
\* box at every other openness and radius tried).
C23_ReachWithinSideLimit ==
  (CutoutRan /\ height > bottom + openFront.bottomOffset) =>
    /\ ReachWithinLimit(cutout)
    /\ bxPc = "done" =>
          \A pct \in {5, 35, 100} : \A cr \in CutoutRadiiTriedMM :
            ReachWithinLimit(CutoutWith(pct, U * cr))

\* a fully open cutout with a top flare on a box with room on the back flat:
\* the reach of the positive side is exactly its limit
C23_Witness ==
  /\ bxPc = "done" /\ openFront.defined /\ openFront.openness = 100
  /\ height > bottom + openFront.bottomOffset
  /\ cutout.topR > 0
  /\ AugmentedOpenFront.backFlatAllowance_R > 0
  /\ cutout.halfExtent_R + cutout.topR = cutout.maxHalf_R + AugmentedOpenFront.backFlatAllowance_R

\* C7: with cornerClipsOnly = true, box() unions exactly 4 clip pairs (the
\* four grid corners) whenever N >= 2 and NV >= 2, whatever the box size;
\* with cornerClipsOnly false or absent it unions one pair at every one of
\* the N*NV grid positions.
C7_CornerClipsOnlyFourPairs ==
  bxPc = "done" =>
    LET g == Grid(height, width, radii)
    IN  /\ NumAdds = 2 * Cardinality(ClipPairs)
        /\ (cornerClipsOnly = "true" /\ g.N >= 2 /\ g.NV >= 2) =>
              /\ Cardinality(ClipPairs) = 4
              /\ ClipPairs = {0, g.N - 1} \X {0, g.NV - 1}
        /\ cornerClipsOnly # "true" =>
              ClipPairs = (0..(g.N - 1)) \X (0..(g.NV - 1))

\* a 4 x 3 grid was laid out with corner clips only
C7_Witness ==
  /\ bxPc = "done" /\ cornerClipsOnly = "true"
  /\ Grid(height, width, radii).N = 4 /\ Grid(height, width, radii).NV = 3
  /\ Cardinality(ClipPairs) = 4

\* C8: with openFront undefined box() performs no cutout operation at all,
\* and whenever width - backLeft - backRight - 10 >= 0 and height >=
\* CLIP_HEIGHT the returned solid has at least one clip pair unioned in.
C8_NoOpenFrontNoCutoutSomeClip ==
  ~openFront.defined =>
     /\ \A k \in 1..Len(ops) : ops[k].what # "cutout"
     /\ (bxPc = "done" /\ Grid(height, width, radii).W >= 0 /\ height >= CLIP_HEIGHT)
           => ClipPairs # {}

\* the box of the spec's example: 52 x 80 x 60, radii 6, wall 2, bottom 3, no front opening
C8_Witness ==
  /\ bxPc = "done" /\ ~openFront.defined
  /\ height = 52 * U /\ width = 80 * U /\ depth = 60 * U
  /\ radii = Radii(6 * U, 6 * U, 6 * U, 6 * U)
  /\ wall = 2 * U /\ bottom = 3 * U
  /\ Cardinality(ClipPairs) >= 1

\* the columns and rows at which a clip has been unioned so far
ClipColumns == { ops[k].i : k \in { n \in 1..Len(ops) : ops[n].op = "add" } }
ClipRows == { ops[k].j : k \in { n \in 1..Len(ops) : ops[n].op = "add" } }

\* C18: when W = width - backLeft - backRight - 10 >= 0 and height >=
\* CLIP_HEIGHT, every clip origin placed lies on the flat part of the back
\* edge inset by the padding,
\* -width/2 + backRight + 5 <= i*40 + dx + backFlatCenter <= width/2 - backLeft - 5,
\* every clip row fits under the top, j*40 + CLIP_HEIGHT <= height, and the
\* grid is centred on the middle of the back flat, (backRight - backLeft)/2.
C18_ClipsOnBackFlat ==
  LET g == Grid(height, width, radii)
  IN  (bxPc \in {"clips", "done"} /\ g.W >= 0 /\ height >= CLIP_HEIGHT) =>
        /\ \A i \in ClipColumns :
              /\ 0 - RDiv(width, 2) + radii.backRight + padding <= ClipX(g, i)
              /\ ClipX(g, i) <= RDiv(width, 2) - radii.backLeft - padding
        /\ \A j \in ClipRows : j * gh + CLIP_HEIGHT <= height
        /\ ClipX(g, 0) + ClipX(g, g.N - 1) = g.bfc2

\* a finished box with unequal back radii, two columns and two rows of clips
C18_Witness ==
  /\ bxPc = "done"
  /\ radii.backRight # radii.backLeft
  /\ Grid(height, width, radii).W >= 0
  /\ Cardinality(ClipColumns) >= 2
  /\ Cardinality(ClipRows) >= 2

\* C20: box() issues its kernel operations in the order outer extrude,
\* interior subtract, cutout subtract (only with openFront), clip unions: the
\* outer extrude is first, the interior is subtracted before the cutout, the
\* cutout is subtracted only when openFront is given, and nothing is
\* subtracted once a clip has been unioned.
C20_OperationsInOrder ==
  /\ Len(ops) >= 1 => ops[1] = Op("extrude", "outer", 0, 0)
  /\ \A k \in 1..Len(ops) : \A n \in 1..Len(ops) :
        /\ (ops[k].op = "add" /\ n > k) => ops[n].op = "add"
        /\ (ops[k] = Op("subtract", "cutout", 0, 0) /\ ops[n] = Op("subtract", "innerNeg", 0, 0))
              => n < k
  /\ (\E k \in 1..Len(ops) : ops[k].what = "cutout") => openFront.defined
  /\ bxPc \in {"clips", "done"} =>
        /\ \E k \in 1..Len(ops) : ops[k] = Op("subtract", "innerNeg", 0, 0)
        /\ openFront.defined => \E k \in 1..Len(ops) : ops[k] = Op("subtract", "cutout", 0, 0)

\* a finished box with a front opening and clips: shell, interior, cutout, then unions
C20_Witness ==
  /\ bxPc = "done"
  /\ openFront.defined
  /\ NumAdds >= 2
  /\ \E k \in 1..Len(ops) : ops[k] = Op("subtract", "cutout", 0, 0) /\ ops[k + 1].op = "add"

----------------------------------------------------------------------------
(* Claims about the warp callback *)

CloseTo(a, b) == Abs(a[1] - b[1]) <= 2 /\ Abs(a[2] - b[2]) <= 2

\* the vertex just warped lies on a region boundary of its side
OnBoundary ==
  /\ wpPc = "warped"
  /\ Abs(v[1]) \in Boundaries(WarpParams(cutout, depth, radii, SideOf(v[1])))

\* the position the branch taken just after the boundary gives the same vertex
AfterBoundary ==
  LET sgn == SideOf(v[1])
      p == WarpParams(cutout, depth, radii, sgn)
      absX == Abs(v[1])
  IN  RegionMap(RegionOf(p, absX + 1), p, sgn, absX, v[2])

\* C3 (as claimed): at every region boundary of each side, the position the
\* callback computes with the branch before the boundary equals (to 0.02 mm)
\* the position the branch after it computes, for every offset y of the
\* cutout solid, the offsets on which the rLocal clamp acts included.
C3_WarpContinuousAtBoundaries ==
  OnBoundary => CloseTo(warped, AfterBoundary)

\* the boundary the vertex lies on bounds no sharp corner, and if it bounds
\* the front arc the clamp leaves the vertex's radial offset alone
SmoothBoundary ==
  LET p == WarpParams(cutout, depth, radii, SideOf(v[1]))
      absX == Abs(v[1])
  IN  /\ absX \in {p.flatBound, arcEnd(p)} => (p.frontR > 0 /\ v[2] - p.cornerCY >= 1)
      /\ absX \in {sideEnd(p), backArcEnd(p)} => p.backR > 0

\* Where the breaks of the warp are: away from the clamp and from corners of
\* radius 0 the two branches agree at every boundary.
WarpContinuousWhereUnclamped ==
  (OnBoundary /\ SmoothBoundary) => CloseTo(warped, AfterBoundary)

\* the radius roundedRectangle gives the corner of the quadrant of a point
OutlineRadius(pt, rd) ==
  IF pt[1] >= 0
    THEN (IF pt[2] >= 0 THEN rd.frontLeft ELSE rd.backLeft)
    ELSE (IF pt[2] >= 0 THEN rd.frontRight ELSE rd.backRight)

\* pt lies (to 0.02 mm) on the outline roundedRectangle([w, d], rd) draws
OnOutline(pt, w, d, rd) ==
  LET r == OutlineRadius(pt, rd)
      ax == Abs(pt[1])
      ay == Abs(pt[2])
      cx == RDiv(w, 2) - r
      cy == RDiv(d, 2) - r
      dist2 == (ax - cx) * (ax - cx) + (ay - cy) * (ay - cy)
  IN  \/ Abs(ax - RDiv(w, 2)) <= 2 /\ ay <= cy + 2
      \/ Abs(ay - RDiv(d, 2)) <= 2 /\ ax <= cx + 2
      \/ ax >= cx - 2 /\ ay >= cy - 2 /\ Abs(dist2 - r * r) <= 6 * r + 9

\* the vertex just warped lay on the front outer plane y = depth/2
OnFrontPlane == wpPc = "warped" /\ v[2] = RDiv(depth, 2)

\* C16: on each side and in each of the five regions, a vertex of the front
\* outer plane y = depth/2 is mapped onto the outer outline built from the
\* same CornerRadii, also when the front and back radius of a side differ
\* and when the left and right radii differ.
C16_WarpFollowsOutline ==
  OnFrontPlane => OnOutline(warped, width, depth, radii)

\* Where the warp leaves the outline: while the vertex has not passed the
\* side flat, or the back radius of its side equals the front radius, it
\* stays on it.
WarpFollowsOutlineUpToSide ==
  LET p == WarpParams(cutout, depth, radii, SideOf(v[1]))
  IN  (OnFrontPlane /\ (RegionOf(p, Abs(v[1])) <= 3 \/ p.frontR = p.backR))
        => OnOutline(warped, width, depth, radii)

\* the radii of a side are within limits
SideWithinLimits(p) ==
  /\ 2 * p.frontR <= width
  /\ p.frontR + p.backR <= depth

\* C17: for radii within limits the region boundaries are ordered
\* 0 <= flatBound <= arcEnd <= sideEnd <= backArcEnd, and a vertex is
\* transformed by exactly one branch, the one of the interval its |x| falls
\* in (front flat, front arc, side flat, back arc, back flat); with a front
\* or back radius of 0 the arc region of that corner is empty and its branch,
\* which divides by the radius, is never taken.
C17_RegionsOrderedAndExclusive ==
  wpPc = "warped" =>
    LET sgn == SideOf(v[1])
        p == WarpParams(cutout, depth, radii, sgn)
        absX == Abs(v[1])
        k == RegionOf(p, absX)
    IN  SideWithinLimits(p) =>
          /\ 0 <= p.flatBound /\ p.flatBound <= arcEnd(p)
          /\ arcEnd(p) <= sideEnd(p) /\ sideEnd(p) <= backArcEnd(p)
          /\ k = 1 <=> absX <= p.flatBound
          /\ k = 2 <=> (p.flatBound < absX /\ absX <= arcEnd(p))
          /\ k = 3 <=> (arcEnd(p) < absX /\ absX <= sideEnd(p))
          /\ k = 4 <=> (sideEnd(p) < absX /\ absX <= backArcEnd(p))
          /\ k = 5 <=> backArcEnd(p) < absX
          /\ warped = RegionMap(k, p, sgn, absX, v[2])
          /\ p.frontR = 0 => (arcEnd(p) = p.flatBound /\ k # 2)
          /\ p.backR = 0 => (backArcEnd(p) = sideEnd(p) /\ k # 4)
          /\ k = 2 => p.cornerArc > 0
          /\ k = 4 => p.backArc > 0

\* a vertex just past the front flat of a side with a sharp front corner and
\* a round back corner: the front-arc branch is skipped, the side flat applies
C17_Witness ==
  LET p == WarpParams(cutout, depth, radii, SideOf(v[1]))
  IN  /\ wpPc = "warped"
      /\ SideWithinLimits(p)
      /\ p.frontR = 0 /\ p.backR > 0
      /\ Abs(v[1]) = p.flatBound + 1
      /\ RegionOf(p, Abs(v[1])) = 3
      /\ warped # v

\* the vertex just warped was handled by the back-flat branch of its side
OnBackFlat ==
  /\ wpPc = "warped"
  /\ RegionOf(WarpParams(cutout, depth, radii, SideOf(v[1])), Abs(v[1])) = 5

\* C19: with an open front, a cutout vertex that the warp places on the back
\* flat wall keeps at least 1 mm clearance from the outermost clip on its
\* side: the |x| of the warped vertex is at least outerClipX + 1 mm, with
\* outerClipX the footprint edge box() computed for that side.
C19_BackFlatClearsOuterClip ==
  OnBackFlat =>
    Abs(warped[1]) >= outerClipX(Grid(height, width, radii), SideOf(v[1])) + 1 * U

\* the end of a fully open cutout on a box with a clip and room on the back
\* flat: the vertex is carried round both corners onto the back wall
C19_Witness ==
  /\ OnBackFlat
  /\ Grid(height, width, radii).N > 0
  /\ Abs(v[1]) = CutoutReach(cutout, SideOf(v[1]))
  /\ Abs(warped[1]) < WarpParams(cutout, depth, radii, SideOf(v[1])).flatBound
  /\ radii.backLeft # radii.backRight

----------------------------------------------------------------------------
(* Claims about the parameter state *)

\* C6 (as claimed): after every input event of the controls, once the
\* listeners have run, the stored cutoutRadius does not exceed the
\* maxCutoutRadius computed for the current parameters.
C6_CutoutRadiusWithinMax ==
  openFrontDimensions.cutoutRadius <= maxCutoutRadius

\* C6 (amended): the stored cutoutRadius lies between MIN_OPEN_FRONT_RADIUS
\* and the larger of MIN_OPEN_FRONT_RADIUS and maxCutoutRadius, and a value
\* typed into the radius control is stored clamped into that range.
C6_CutoutRadiusWithinFlooredMax ==
  /\ openFrontDimensions.cutoutRadius >= MIN_OPEN_FRONT_RADIUS
  /\ openFrontDimensions.cutoutRadius <= Max2(MIN_OPEN_FRONT_RADIUS, maxCutoutRadius)
  /\ lastInput.control = "openFrontRadius" =>
        openFrontDimensions.cutoutRadius =
          Max2(MIN_OPEN_FRONT_RADIUS, Min2(lastInput.value, maxCutoutRadius))

\* a radius far above the maximum was typed and the maximum was stored
C6_Witness ==
  /\ lastInput.control = "openFrontRadius"
  /\ lastInput.value > maxCutoutRadius
  /\ maxCutoutRadius >= 1
  /\ openFrontDimensions.cutoutRadius = maxCutoutRadius

\* C9: after every input event of the controls, each of the four corner radii
\* is at least 0 and at most half of the width and half of the depth.
C9_RadiiWithinHalfOfSides ==
  \A k \in Corners :
    /\ cornerRadii[k] >= 0
    /\ 2 * cornerRadii[k] <= Min2(modelDimensions.width, modelDimensions.depth)

\* C15: after every input event of the controls,
\* 0 <= bottomOffset <= floor(height - bottom) - 1: the bottom edge of the
\* cutout, bottom + bottomOffset, stays at least 1 mm below the top of the
\* box, also right after the level count was reduced.
C15_BottomOffsetWithinMax ==
  /\ openFrontDimensions.bottomOffset >= 0
  /\ openFrontDimensions.bottomOffset
       <= FloorDiv(modelDimensions.height - modelDimensions.bottom, 1) - 1
  /\ modelDimensions.bottom + openFrontDimensions.bottomOffset + 1 <= modelDimensions.height

\* the level count was just reduced to 1 and the offset was cut down to the new maximum
C15_Witness ==
  /\ lastInput.control \in {"levels", "levelsMinus"}
  /\ levels = MIN_LEVELS
  /\ openFrontDimensions.bottomOffset = maxBottomOffset
  /\ openFrontDimensions.bottomOffset < START_OPEN_FRONT_BOTTOM_OFFSET
  /\ openFrontDimensions.bottomOffset > 0

\* the download listener hands the parameter state to box(): lengths as they
\* stand, openness / 100 (held in percent here, as in OpenFrontParams)
BoxRadii == [k \in DOMAIN cornerRadii |-> U * cornerRadii[k]]

BoxOpenFront ==
  Augment(OpenFront(openFrontDimensions.openness, U * openFrontDimensions.bottomOffset,
                    U * openFrontDimensions.cutoutRadius),
          U * modelDimensions.width, BoxRadii,
          Grid(U * modelDimensions.height, U * modelDimensions.width, BoxRadii))

\* what frontCutout computes for the parameter state
BoxFrontCutout ==
  frontCutout(U * modelDimensions.height, U * modelDimensions.width, U * modelDimensions.depth,
              BoxRadii, U * modelDimensions.wall, U * modelDimensions.bottom,
              BoxOpenFront.openness, BoxOpenFront.bottomOffset, BoxOpenFront.cutoutRadius,
              BoxOpenFront.backFlatAllowance_R, BoxOpenFront.backFlatAllowance_L)

\* r of frontCutoutCrossSection for the parameter state
BoxBottomRadius ==
  BottomRadius(BoxOpenFront.cutoutRadius, BoxFrontCutout.halfExtent_R, BoxFrontCutout.halfExtent_L,
               U * (modelDimensions.height - modelDimensions.bottom
                    - openFrontDimensions.bottomOffset))

\* the requested radius is within the limit the controls show
RadiusWithinLimit ==
  /\ openFrontEnabled
  /\ 0 <= openFrontDimensions.cutoutRadius
  /\ openFrontDimensions.cutoutRadius <= maxCutoutRadius

\* C21: whenever 0 <= cutoutRadius <= maxCutoutRadius for the current
\* parameters, the generator uses the requested radius unchanged: rClamped of
\* frontCutout and r of frontCutoutCrossSection both equal cutoutRadius.
C21_LimitAuthoritativeForGenerator ==
  RadiusWithinLimit =>
    /\ BoxFrontCutout.rClamped = U * openFrontDimensions.cutoutRadius
    /\ BoxBottomRadius = U * openFrontDimensions.cutoutRadius

\* the part of C21 that holds: the top flare keeps the requested radius
TopRadiusUnchangedWithinLimit ==
  RadiusWithinLimit => BoxFrontCutout.rClamped = U * openFrontDimensions.cutoutRadius

\* maxHalf as the limit computes it for the parameter state
BoxLimitMaxHalf ==
  limitMaxHalf(modelDimensions.width, modelDimensions.depth,
               cornerRadii.frontLeft, cornerRadii.frontRight,
               cornerRadii.backLeft, cornerRadii.backRight)

\* C22: the half-perimeter that maxCutoutRadius derives from
\* max(frontLeft, frontRight) and max(backLeft, backRight) is at most the
\* half-perimeter the generator computes for each side, maxHalf_R (from
\* frontLeft/backLeft) and maxHalf_L (from frontRight/backRight).
C22_LimitHalfPerimeterConservative ==
  /\ BoxLimitMaxHalf <= BoxFrontCutout.maxHalf_R
  /\ BoxLimitMaxHalf <= BoxFrontCutout.maxHalf_L

\* the clip grid box() lays out for the parameter state
BoxGrid == Grid(U * modelDimensions.height, U * modelDimensions.width, BoxRadii)

\* C26: in every state reachable through the controls the box passed to
\* box() has at least one column of clips:
\* N = floor((width - backLeft - backRight - 10)/40 + 1) >= 1.
C26_AtLeastOneClipColumn ==
  BoxGrid.N >= 1

\* C27: after any sequence of plus, minus and typed level inputs, levels
\* stays within [MIN_LEVELS, MAX_LEVELS] = [1, 5], the derived height is
\* 40 * levels - 28, and box() lays out exactly `levels` rows of clips for
\* that height (NV = levels).
C27_LevelsHeightAndRows ==
  /\ MIN_LEVELS = 1 /\ MAX_LEVELS = 5
  /\ levels >= MIN_LEVELS /\ levels <= MAX_LEVELS
  /\ modelDimensions.height = 40 * levels - 28
  /\ BoxGrid.NV = levels

\* the plus button pressed at four levels: five levels, five rows
C27_Witness ==
  /\ lastInput.control = "levelsPlus"
  /\ levels = MAX_LEVELS
  /\ BoxGrid.NV = 5

\* C28: whenever radiusLinked is true and all listeners have run, the four
\* corner radii are equal (after a main-radius input, after a depth change
\* that clamps the radii, after re-linking); right after re-linking all
\* four are the value sent to mainRadiusDyn, the rounded average of the
\* unlinked values, which is at most the current max radius.
C28_LinkedRadiiEqual ==
  radiusLinked =>
    /\ \A k \in Corners : cornerRadii[k] = cornerRadii.frontLeft
    /\ lastInput.control = "radiusLink" =>
          /\ cornerRadii.frontLeft = mainRadiusDyn
          /\ mainRadiusDyn <= maxRadius

\* re-linked after one corner was set to 0: all four are round(18 / 4) = 5
C28_Witness ==
  /\ radiusLinked
  /\ lastInput.control = "radiusLink"
  /\ \A k \in Corners : cornerRadii[k] = 5

----------------------------------------------------------------------------
(* Claims about the frame loop *)

\* C10: at most one reloadModel promise is unsettled at any time.
C10_AtMostOneReloadInFlight ==
  Cardinality(pending) <= 1

\* C11: a stale result is discarded: the mesh never goes back to the result
\* of a reload started earlier than the one it shows, so that once every
\* reload has settled it shows the most recently started one.
C11_StaleResultDiscarded ==
  [][meshFrom' >= meshFrom]_vars

\* time that is enough, with frames at most 101 ms apart until the last
\* timestamp followed, for a stuck reload to be overridden
OverrideTime == 101 + 15

\* time that is enough for the animations to come to rest and a reload
\* started meanwhile to be overridden
RestTime == MaxAnimFrames * 101 + 15

\* C25: with frames arriving and time advancing, a needed regeneration is
\* never blocked for good: whenever reloadModelNeeded is true a reloadModel
\* is eventually started (the flag is cleared only by starting one), also
\* when an earlier reload failed or never settles; and after a parameter
\* change that no other follows, a reloadModel that reads the final animated
\* values is eventually started.  (Stated for the states that leave the
\* needed time before the last timestamp followed.)
C25_NeededReloadEventuallyStarted ==
  /\ (reloadModelNeeded /\ nowMillis + OverrideTime <= MaxMillis) ~> ~reloadModelNeeded
  /\ \A k \in 0..MaxChanges :
        (paramVersion = k /\ nowMillis + RestTime <= MaxMillis)
          ~> (paramVersion # k \/ startedWith = k)

\* after a parameter change a reload with the final values was started
\* while two earlier reloads had not settled (the stuck ones were overridden)
C25_Witness ==
  /\ paramVersion > 0
  /\ startedWith = paramVersion
  /\ animLeft = 0
  /\ ~reloadModelNeeded
  /\ Cardinality(pending) >= 3

----------------------------------------------------------------------------
(* Claims about the kernel loader *)

\* C12: under every interleaving of concurrent calls of ManifoldModule.get(),
\* init() is executed at most once and setup() is executed at most once.
C12_KernelInitialisedOnce ==
  initCalls <= 1 /\ setupCalls <= 1

\* C24: no caller of ManifoldModule.get() receives the kernel handle before
\* setup() has completed on it: in every step in which a call returns, the
\* handle it returns (this.wasm, the instance made by the call numbered wasm)
\* is one whose `await this.wasm.setup()` is over.
C24_HandleReadyWhenReceived ==
  [][\A c \in DOMAIN getPc :
       (getPc[c] # "returned" /\ getPc'[c] = "returned") => getPc'[wasm] = "returned"]_vars

----------------------------------------------------------------------------
(* Claims about generateArc *)

\* the point of the circle of the arguments at an angle
ArcPointAt(angle) ==
  << arcArgs.center[1] + MulCos(arcArgs.radius, angle),
     arcArgs.center[2] + MulSin(arcArgs.radius, angle) >>

\* z component of (p - center) x (q - center)
TurnAboutCentre(pt, qt) ==
  (pt[1] - arcArgs.center[1]) * (qt[2] - arcArgs.center[2])
    - (pt[2] - arcArgs.center[2]) * (qt[1] - arcArgs.center[1])

\* C13: generateArc returns segments + 2 points; point i lies at the angle
\* startAngle + i * (endAngle - startAngle) / (segments + 1), so the first is
\* at startAngle and the last at endAngle; every step turns about the centre
\* in the direction from start to end (clockwise when endAngle < startAngle);
\* with radius 0 every point is the centre.
C13_ArcPoints ==
  arcPc = "built" =>
    LET n == arcArgs.segments
        span == arcArgs.endAngle - arcArgs.startAngle
        step == span \div (n + 1)
    IN  /\ Len(arcPts) = n + 2
        /\ arcPts[1] = ArcPointAt(arcArgs.startAngle)
        /\ arcPts[n + 2] = ArcPointAt(arcArgs.endAngle)
        /\ \A k \in 1..(n + 2) : arcPts[k] = ArcPointAt(arcArgs.startAngle + (k - 1) * step)
        /\ (arcArgs.radius > 0 /\ Abs(step) < 2 * Q) =>
              \A k \in 1..(n + 1) :
                Sign(TurnAboutCentre(arcPts[k], arcPts[k + 1])) = Sign(span)
        /\ arcArgs.radius = 0 => \A k \in 1..(n + 2) : arcPts[k] = arcArgs.center

\* a clockwise quarter arc of positive radius with the default segment count
C13_Witness ==
  /\ arcPc = "built"
  /\ arcArgs.segments = segments
  /\ arcArgs.radius > 0
  /\ arcArgs.startAngle = 2 * Q /\ arcArgs.endAngle = Q
  /\ Len(arcPts) = segments + 2
  /\ arcPts[1] # arcPts[segments + 2]

----------------------------------------------------------------------------
(* Claims about frontCutoutCrossSection *)

RECURSIVE MaxX(_, _, _)
\* largest x among the vertices from .. to of a list
MaxX(list, from, to) ==
  IF from = to THEN list[from][1] ELSE Max2(list[from][1], MaxX(list, from + 1, to))

RECURSIVE MinX(_, _, _)
\* smallest x among the vertices from .. to of a list
MinX(list, from, to) ==
  IF from = to THEN list[from][1] ELSE Min2(list[from][1], MinX(list, from + 1, to))

\* C14: the bottom corners are rounded with r = min(cutoutRadius, the half
\* extent of each side, (height - bottom - bottomOffset) / 2); arcs are
\* generated only when r > 0 (else the section is the plain rectangle), and
\* the two bottom arcs do not overlap: the left arc, centre included, lies
\* to the left of the right arc.
C14_BottomRadiusClamped ==
  csPc = "built" =>
    LET a == csArgs
        bot == a.bottom + a.bottomOffset
        nArc == segments + 2
    IN  /\ cs.r <= a.cutoutRadius /\ cs.r <= a.halfExtent_R /\ cs.r <= a.halfExtent_L
        /\ 2 * cs.r <= a.height - bot
        /\ \/ cs.r = a.cutoutRadius \/ cs.r = a.halfExtent_R \/ cs.r = a.halfExtent_L
           \/ 2 * cs.r = a.height - bot
        /\ cs.rounded <=> cs.r > 0
        /\ ~cs.rounded =>
              cs.vertices = << << 0 - a.halfExtent_L, bot >>, << a.halfExtent_R, bot >>,
                               << a.halfExtent_R, a.height + BOOLEAN_OVERSHOOT >>,
                               << 0 - a.halfExtent_L, a.height + BOOLEAN_OVERSHOOT >> >>
        /\ cs.rounded =>
              /\ Len(cs.vertices) >= 2 * nArc + 2
              /\ 0 - a.halfExtent_L + cs.r <= a.halfExtent_R - cs.r
              /\ MaxX(cs.vertices, 1, nArc) <= 0 - a.halfExtent_L + cs.r
              /\ MinX(cs.vertices, nArc + 1, 2 * nArc) >= a.halfExtent_R - cs.r
              /\ \A k \in 1..(2 * nArc) :
                    cs.vertices[k][2] >= bot /\ cs.vertices[k][2] <= bot + cs.r

\* a requested radius larger than what fits: the half extent of the narrower side wins
C14_Witness ==
  /\ csPc = "built"
  /\ cs.rounded
  /\ csArgs.cutoutRadius > cs.r
  /\ cs.r = csArgs.halfExtent_L
  /\ csArgs.halfExtent_L < csArgs.halfExtent_R
  /\ 2 * cs.r < csArgs.height - csArgs.bottom - csArgs.bottomOffset

----------------------------------------------------------------------------
(* Claims about part positioning *)

\* the changes of tag the handlers may make
TagSteps ==
  { <<"static", "will-move">>, <<"will-move", "moving">>, <<"moving", "moving">>,
    <<"will-move", "static">>, <<"moving", "static">> }

\* C29: the part-positioning state only moves static -> will-move -> moving
\* -> static (a release ends will-move as well as moving): a press on the
\* part from static enters will-move remembering the static position, a
\* press while will-move or moving and a move while static leave the state
\* unchanged, after every release the state is static with position in
\* {-1, 0, 1}, and a press-release without movement toggles 0 -> 1, 1 -> 0
\* and -1 -> 0.
C29_PositioningStateMachine ==
  [][/\ partPositioning' # partPositioning
          => <<partPositioning.tag, partPositioning'.tag>> \in TagSteps
     /\ (mouseEvent' = "press" /\ partPositioning.tag = "static"
           /\ partPositioning' # partPositioning)
          => /\ partPositioning'.tag = "will-move"
             /\ partPositioning'.lastStatic = partPositioning.position
             /\ partPositioning'.startRot = rotation.current
     /\ (mouseEvent' = "press" /\ partPositioning.tag # "static")
          => partPositioning' = partPositioning
     /\ (mouseEvent' = "move" /\ partPositioning.tag = "static")
          => partPositioning' = partPositioning
     /\ mouseEvent' = "release"
          => /\ partPositioning'.tag = "static"
             /\ partPositioning'.position \in {0 - 1, 0, 1}
     /\ (mouseEvent' = "release" /\ partPositioning.tag = "will-move")
          => /\ partPositioning.lastStatic = 0 => partPositioning'.position = 1
             /\ partPositioning.lastStatic = 1 => partPositioning'.position = 0
             /\ partPositioning.lastStatic = 0 - 1 => partPositioning'.position = 0
    ]_vars

\* the part was dragged and released, and it snapped to the position -1
C29_Witness ==
  /\ mouseEvent = "release"
  /\ partPositioning = Static(0 - 1)
  /\ ~mouseListening

\* C30: bound(v, [-1, 1]) returns a value between -1 and 1 for every v, v < -1
\* included: the rotation target sent while dragging and the value rounded
\* when snapping on release are within [-1, 1].
C30_BoundWithinRange ==
  /\ lastBound >= 0 - RotUnit
  /\ lastBound <= RotUnit
  /\ partPositioning.tag = "moving" =>
        (rotation.target >= 0 - RotUnit /\ rotation.target <= RotUnit)

====
